---- MODULE Spec2Model ----
(***************************************************************************)
(* multipla: the rated multi-implementation registry.                      *)
(*                                                                         *)
(* The model follows src/multipla.py.  One instance of a subclass of       *)
(* RatedDict is the state:                                                 *)
(*   cls       its class: MultiPlugAdapter (adds plug_in) or Multipla      *)
(*             (adds switch_on)                                            *)
(*   _dict     the plain dict  key -> value          (self._dict)          *)
(*   _ratings  the OrderedDict key -> rating         (self._ratings),      *)
(*             a sequence of <<key, rating>> pairs in iteration order      *)
(*   last      the call that has just completed and whose outcome the      *)
(*             caller has in hand: its name, its arguments, the exception  *)
(*             it raised ("ok" for none) and its return value; Idle once   *)
(*             the caller has taken the outcome and is ready to call again *)
(*   heap      the MultiPlugAdapter objects a Multipla stores, by object   *)
(*             reference; each has a name and its own _dict and _ratings   *)
(* Every call action is one whole call made while no other call is        *)
(* running; the instance lock is taken and released inside the call.       *)
(* Spec is one RatedDict whose values are opaque; SpecM is one Multipla    *)
(* together with the adapters it stores.  The other specifications have    *)
(* state of their own, which Spec and SpecM leave alone:                   *)
(*   registered                 the plugins of one pluggable package       *)
(*                              (SpecN: the names given to get)            *)
(*   _register, multiplas,      the module-level register of power_up, the *)
(*   callbacks, entries         Multipla objects and the working sets      *)
(*                              (SpecP)                                    *)
(*   locked, threads            the instance lock and the threads calling  *)
(*                              one RatedDict (SpecT)                      *)
(***************************************************************************)
EXTENDS Integers, Sequences, FiniteSets, TLC

\* The keys callers use, and the objects they store: values are opaque
\* object references (plug implementations; adapters in a Multipla).
Keys == {"a", "b", "c"}
Values == {1, 2}

\* Ratings callers pass to rate: the code accepts any number, the docstring
\* asks for numbers >= 0, so one negative rating is part of the inputs.
MaxRating == 1
Ratings == (0 - 1)..MaxRating

\* The most items one update call names (positional source plus keywords).
MaxLen == 2

\* The largest amount asked of top (one more than there are keys).
MaxAmount == 4

\* The two subclasses of RatedDict.
Classes == {"MultiPlugAdapter", "Multipla"}

VARIABLES cls, _dict, _ratings, last, heap,
          registered,
          _register, multiplas, callbacks, entries,
          locked, threads

namesVars == <<registered>>

powerVars == <<_register, multiplas, callbacks, entries>>

threadVars == <<locked, threads>>

vars == <<cls, _dict, _ratings, last, heap, namesVars, powerVars, threadVars>>

\* The value of a variable the specification at hand does not use.
Unused == <<>>

\* What a call returns: NoValue when it raised or returns None, else
\* Returned(the value).
NoValue == <<>>

Returned(value) == <<value>>

\* Elements of an update source that do not unpack into (key, value): one
\* that is not iterable, and an iterable of another length than two.
NotAPair == <<>>

NotTwo == <<0, 0, 0>>

(***************************************************************************)
(* collections.OrderedDict, as a sequence of <<key, value>> pairs.         *)
(***************************************************************************)
OKeys(r) == [i \in 1..Len(r) |-> r[i][1]]

OHas(r, key) == \E i \in 1..Len(r) : r[i][1] = key

OGet(r, key) == r[CHOOSE i \in 1..Len(r) : r[i][1] = key][2]

\* Mutants of OSetDefault: self._ratings[key] = default, which resets the
\* rating of a present key; and a new key put first.
OSetDefault_Overwrite(r, key, default) ==
    IF OHas(r, key)
    THEN [i \in 1..Len(r) |-> IF r[i][1] = key THEN <<key, default>> ELSE r[i]]
    ELSE Append(r, <<key, default>>)

OSetDefault_First(r, key, default) ==
    IF OHas(r, key) THEN r ELSE <<(<<key, default>>)>> \o r

\* OrderedDict.setdefault(key, default): a new key goes last.
OSetDefault(r, key, default) ==
    IF OHas(r, key) THEN r ELSE Append(r, <<key, default>>)

\* del od[key]: the other items keep their order.
ODel(r, key) == SelectSeq(r, LAMBDA e : e[1] # key)

\* OrderedDict.update(mapping): a present key keeps its position and takes
\* the new value; an absent key is appended.
RECURSIVE OAppendAll(_, _, _)
OAppendAll(r, u, S) ==
    IF S = {} THEN r
    ELSE LET k == CHOOSE x \in S : TRUE
         IN  OAppendAll(Append(r, <<k, u[k]>>), u, S \ {k})

OUpdate(r, u) ==
    LET replaced == [i \in 1..Len(r) |->
                        IF r[i][1] \in DOMAIN u
                        THEN <<r[i][1], u[r[i][1]]>> ELSE r[i]]
    IN  OAppendAll(replaced, u, {k \in DOMAIN u : ~OHas(r, k)})

\* dict[key] = value
DSet(d, key, value) ==
    [k \in (DOMAIN d) \cup {key} |-> IF k = key THEN value ELSE d[k]]

\* del dict[key]
DDel(d, key) == [k \in (DOMAIN d) \ {key} |-> d[k]]

EmptyDict == [k \in {} |-> 0]

(***************************************************************************)
(* RatedDict.  Each method is an operator from the instance's fields       *)
(* (d = self._dict, r = self._ratings) and the arguments to the fields     *)
(* after the call, the exception raised ("ok" for none) and the value      *)
(* returned.                                                               *)
(***************************************************************************)
Res(d, r, status, ret) ==
    [dict |-> d, ratings |-> r, status |-> status, ret |-> ret]

\* Mutant of _setitem_: the rating of a new key is not created.
_setitem_NoRating(d, r, key, value) ==
    Res(DSet(d, key, value), r, "ok", Returned(value))

\* Mutant of _setitem_: a new key is put where rating 0 belongs, ahead of
\* the keys rated lower.
_setitem_InOrder(d, r, key, value) ==
    LET lower == {i \in 1..Len(r) : r[i][2] < 0}
        at == IF lower = {} THEN Len(r) + 1
              ELSE CHOOSE i \in lower : \A j \in lower : i <= j
    IN  Res(DSet(d, key, value),
            IF OHas(r, key) THEN r
            ELSE SubSeq(r, 1, at - 1) \o <<(<<key, 0>>)>> \o SubSeq(r, at, Len(r)),
            "ok", Returned(value))

\* RatedDict._setitem_
_setitem_(d, r, key, value) ==
    Res(DSet(d, key, value), OSetDefault(r, key, 0), "ok", Returned(value))

\* RatedDict.__setitem__ (returns None)
__setitem__(d, r, key, value) ==
    LET s == _setitem_(d, r, key, value)
    IN  Res(s.dict, s.ratings, "ok", NoValue)

\* Mutant of __delitem__: the rating of the key is left behind.
delitem_LeavesRating(d, r, key) ==
    IF key \notin DOMAIN d THEN Res(d, r, "KeyError", NoValue)
    ELSE Res(DDel(d, key), r, "ok", NoValue)

\* Mutant of __delitem__: a key that is not there is passed over in silence.
delitem_Lenient(d, r, key) ==
    IF key \notin DOMAIN d THEN Res(d, r, "ok", NoValue)
    ELSE Res(DDel(d, key), ODel(r, key), "ok", NoValue)

\* RatedDict.__delitem__: del self._dict[key] raises KeyError first.
__delitem__(d, r, key) ==
    IF key \notin DOMAIN d THEN Res(d, r, "KeyError", NoValue)
    ELSE IF ~OHas(r, key) THEN Res(DDel(d, key), r, "KeyError", NoValue)
    ELSE Res(DDel(d, key), ODel(r, key), "ok", NoValue)

\* The loops of RatedDict.update: each item goes through _setitem_; an
\* element that does not unpack into (key, value) raises TypeError, or
\* ValueError if it is an iterable of another length, and the items before
\* it stay applied.
RECURSIVE update_loop(_, _, _)
update_loop(d, r, items) ==
    IF items = <<>> THEN Res(d, r, "ok", NoValue)
    ELSE IF Head(items) = NotAPair THEN Res(d, r, "TypeError", NoValue)
    ELSE IF Len(Head(items)) # 2 THEN Res(d, r, "ValueError", NoValue)
    ELSE LET s == _setitem_(d, r, Head(items)[1], Head(items)[2])
         IN  update_loop(s.dict, s.ratings, Tail(items))

\* Mutant of update: a source that is not iterable counts as an empty one.
update_NoniterableAsEmpty(d, r, other, updated) ==
    LET first == update_loop(d, r, other.items)
    IN  IF first.status # "ok" THEN first
        ELSE update_loop(first.dict, first.ratings, updated)

\* RatedDict.update(other, **updated).  other is of kind "mapping" (it has
\* items(), or keys() and __getitem__: both loops apply its items in
\* order), "pairs" (an iterable) or "noniterable" (the last loop raises
\* TypeError at once).
update(d, r, other, updated) ==
    IF other.kind = "noniterable" THEN Res(d, r, "TypeError", NoValue)
    ELSE LET first == update_loop(d, r, other.items)
         IN  IF first.status # "ok" THEN first
             ELSE update_loop(first.dict, first.ratings, updated)

\* adapter.plug_out(name): neither MultiPlugAdapter nor RatedDict defines
\* plug_out (nor __getattr__), so the attribute lookup raises
\* AttributeError.
plug_out(d, r, name) == Res(d, r, "AttributeError", NoValue)

\* Mutant of SortKey: key=lambda kv: kv[1], lowest rating first.
SortKey_Ascending(kv) == kv[2]

\* The sort key of rate: key=lambda kv: -kv[1]
SortKey(kv) == 0 - kv[2]

\* Mutant of InsertStable: e goes before the elements with an equal key.
InsertBeforeEqual(s, e) ==
    LET n == Cardinality({i \in 1..Len(s) : SortKey(s[i]) < SortKey(e)})
    IN  SubSeq(s, 1, n) \o <<e>> \o SubSeq(s, n + 1, Len(s))

\* One step of a stable ascending sort: e goes after every element whose
\* sort key is not greater than its own.
InsertStable(s, e) ==
    LET n == Cardinality({i \in 1..Len(s) : SortKey(s[i]) <= SortKey(e)})
    IN  SubSeq(s, 1, n) \o <<e>> \o SubSeq(s, n + 1, Len(s))

\* sorted(self._ratings.items(), key=...): stable, ascending in the key.
RECURSIVE sorted(_)
sorted(items) ==
    IF items = <<>> THEN <<>>
    ELSE InsertStable(sorted(SubSeq(items, 1, Len(items) - 1)),
                      items[Len(items)])

\* Mutant of rate: the ratings of the entries named are merged and sorted
\* before the unexpected keys are reported.
rate_MergeBeforeCheck(d, r, ratings) ==
    LET unexpected == (DOMAIN ratings) \ (DOMAIN d)
        valid == [k \in (DOMAIN ratings) \cap (DOMAIN d) |-> ratings[k]]
    IN  IF unexpected # {} THEN Res(d, sorted(OUpdate(r, valid)), "KeyError", NoValue)
        ELSE Res(d, sorted(OUpdate(r, ratings)), "ok", NoValue)

\* RatedDict.rate, with ratings = dict(updates, **args)
rate(d, r, ratings) ==
    LET unexpected == (DOMAIN ratings) \ (DOMAIN d)
    IN  IF unexpected # {} THEN Res(d, r, "KeyError", NoValue)
        ELSE Res(d, sorted(OUpdate(r, ratings)), "ok", NoValue)

\* Mutant of top_loop: StopIteration ends the loop and the list built so
\* far is returned.
RECURSIVE top_loop_Partial(_, _, _, _, _)
top_loop_Partial(d, r, amount, counter, top_rated) ==
    IF counter >= amount \/ counter >= Len(r) THEN Res(d, r, "ok", Returned(top_rated))
    ELSE LET key == r[counter + 1][1]
         IN  IF key \notin DOMAIN d THEN Res(d, r, "KeyError", NoValue)
             ELSE top_loop_Partial(d, r, amount, counter + 1,
                                   Append(top_rated, <<key, d[key]>>))

\* The loop of RatedDict.top: next(item) raises StopIteration when the
\* ratings are exhausted, turned into ValueError; the list built so far is
\* dropped.
RECURSIVE top_loop(_, _, _, _, _)
top_loop(d, r, amount, counter, top_rated) ==
    IF counter >= amount THEN Res(d, r, "ok", Returned(top_rated))
    ELSE IF counter >= Len(r) THEN Res(d, r, "ValueError", NoValue)
    ELSE LET key == r[counter + 1][1]
         IN  IF key \notin DOMAIN d THEN Res(d, r, "KeyError", NoValue)
             ELSE top_loop(d, r, amount, counter + 1,
                           Append(top_rated, <<key, d[key]>>))

\* RatedDict.top(amount)
top(d, r, amount) == top_loop(d, r, amount, 0, <<>>)

\* RatedDict.top(): amount = len(self._ratings)
top_all(d, r) == top(d, r, Len(r))

\* Mutant of highest_rated: the value of the last key of the order.
highest_rated_Last(d, r) ==
    IF r = <<>> THEN Res(d, r, "ValueError", NoValue)
    ELSE IF r[Len(r)][1] \notin DOMAIN d THEN Res(d, r, "KeyError", NoValue)
    ELSE Res(d, r, "ok", Returned(d[r[Len(r)][1]]))

\* RatedDict.highest_rated
highest_rated(d, r) ==
    IF r = <<>> THEN Res(d, r, "ValueError", NoValue)
    ELSE IF r[1][1] \notin DOMAIN d THEN Res(d, r, "KeyError", NoValue)
    ELSE Res(d, r, "ok", Returned(d[r[1][1]]))

\* RatedDict.__iter__: the keys in the order of self._ratings.
__iter__(r) == OKeys(r)

\* RatedDict.__reversed__: OrderedDict.__reversed__ walks from the last key.
RECURSIVE __reversed__(_)
__reversed__(r) ==
    IF r = <<>> THEN <<>>
    ELSE <<r[Len(r)][1]>> \o __reversed__(SubSeq(r, 1, Len(r) - 1))

\* RatedDict.ratings: tuple(self._ratings.items())
ratings_view(r) == r

\* Mutant of plug_in: an occupied name is overwritten.
plug_in_Overwrites(d, r, name, plug) == _setitem_(d, r, name, plug)

\* MultiPlugAdapter.plug_in
plug_in(d, r, name, plug) ==
    IF name \in DOMAIN d THEN Res(d, r, "KeyError", NoValue)
    ELSE _setitem_(d, r, name, plug)

\* Mutant of switch_on: a new adapter is stored on every call.
switch_on_AlwaysNew(d, r, name, adapter) == _setitem_(d, r, name, adapter)

\* Multipla.switch_on; adapter is the object MultiPlugAdapter(name) makes.
switch_on(d, r, name, adapter) ==
    IF name \in DOMAIN d THEN Res(d, r, "ok", Returned(d[name]))
    ELSE _setitem_(d, r, name, adapter)

(***************************************************************************)
(* The inputs of the calls.                                                *)
(***************************************************************************)
Pairs == Keys \X Values

SeqsUpTo(S, n) == UNION {[1..m -> S] : m \in 0..n}

DistinctKeys(s) == \A i, j \in 1..Len(s) : i # j => s[i][1] # s[j][1]

\* A mapping, in its iteration order.
Mappings(n) == {s \in SeqsUpTo(Pairs, n) : DistinctKeys(s)}

\* The positional argument of update.  Of an iterable with an element that
\* does not unpack, what follows that element is never read.
Sources ==
    {[kind |-> "pairs", items |-> s] : s \in SeqsUpTo(Pairs, MaxLen)}
    \cup {[kind |-> "pairs", items |-> Append(s, bad)] :
              s \in SeqsUpTo(Pairs, MaxLen - 1), bad \in {NotAPair, NotTwo}}
    \cup {[kind |-> "mapping", items |-> s] : s \in Mappings(MaxLen)}
    \cup {[kind |-> "noniterable", items |-> <<>>]}

\* The arguments of update: the positional source and the keywords.
UpdateArgs ==
    UNION {{<<other, updated>> : updated \in Mappings(MaxLen - Len(other.items))} :
           other \in Sources}

\* The argument of rate, as the dict built from it.
RateArgs == UNION {[K -> Ratings] : K \in SUBSET Keys}

(***************************************************************************)
(* The state machine: one action per call.                                 *)
(***************************************************************************)
Idle == [op |-> "idle", args |-> <<>>, status |-> "ok", ret |-> NoValue]

Call(op, args, res) ==
    /\ last.op = "idle"
    /\ cls' = cls
    /\ _dict' = res.dict
    /\ _ratings' = res.ratings
    /\ last' = [op |-> op, args |-> args, status |-> res.status, ret |-> res.ret]
    /\ heap' = heap
    /\ UNCHANGED <<namesVars, powerVars, threadVars>>

Init ==
    /\ cls \in Classes
    /\ _dict = EmptyDict
    /\ _ratings = <<>>
    /\ last = Idle
    /\ heap = EmptyDict
    /\ registered = Unused
    /\ _register = Unused /\ multiplas = Unused
    /\ callbacks = Unused /\ entries = Unused
    /\ locked = Unused /\ threads = Unused

SetItem ==
    \E key \in Keys, value \in Values :
        Call("__setitem__", <<key, value>>, __setitem__(_dict, _ratings, key, value))

DelItem ==
    \E key \in Keys :
        Call("__delitem__", <<key>>, __delitem__(_dict, _ratings, key))

\* Of update's arguments, last keeps the kind of the positional source.
Update ==
    \E a \in UpdateArgs :
        Call("update", <<a[1].kind>>, update(_dict, _ratings, a[1], a[2]))

Rate ==
    \E ratings \in RateArgs :
        Call("rate", <<ratings>>, rate(_dict, _ratings, ratings))

Top ==
    \E amount \in 0..MaxAmount :
        Call("top", <<amount>>, top(_dict, _ratings, amount))

TopAll == Call("top", <<>>, top_all(_dict, _ratings))

HighestRated == Call("highest_rated", <<>>, highest_rated(_dict, _ratings))

PlugIn ==
    /\ cls = "MultiPlugAdapter"
    /\ \E name \in Keys, plug \in Values :
           Call("plug_in", <<name, plug>>, plug_in(_dict, _ratings, name, plug))

PlugOut ==
    /\ cls = "MultiPlugAdapter"
    /\ \E name \in Keys :
           Call("plug_out", <<name>>, plug_out(_dict, _ratings, name))

SwitchOn ==
    /\ cls = "Multipla"
    /\ \E name \in Keys, adapter \in Values :
           Call("switch_on", <<name, adapter>>,
                switch_on(_dict, _ratings, name, adapter))

\* The caller takes the outcome of the call and is ready for the next one.
Return ==
    /\ last.op # "idle"
    /\ last' = Idle
    /\ UNCHANGED <<cls, _dict, _ratings, heap, namesVars, powerVars, threadVars>>

Next ==
    \/ SetItem
    \/ DelItem
    \/ Update
    \/ Rate
    \/ Top
    \/ TopAll
    \/ HighestRated
    \/ PlugIn
    \/ PlugOut
    \/ SwitchOn
    \/ Return

Spec == Init /\ [][Next]_vars

(***************************************************************************)
(* A Multipla and the adapters it stores (SpecM).  _dict maps a socket     *)
(* name to the reference of its MultiPlugAdapter, heap maps the reference  *)
(* to the adapter object.                                                  *)
(***************************************************************************)
\* The socket (entry point) names and the implementation names callers use.
Sockets == {"test", "other"}
Implementations == {"first", "second"}

\* The object plugged in under each implementation name.
Plug == [name \in Implementations |-> IF name = "first" THEN 1 ELSE 2]

\* The identities an adapter object can have.
Refs == {1, 2, 3}

\* Python's None, the default of get's parameter default.
None == 0

\* RatedDict.__getitem__
__getitem__(d, key) ==
    IF key \in DOMAIN d THEN [status |-> "ok", ret |-> Returned(d[key])]
    ELSE [status |-> "KeyError", ret |-> NoValue]

\* MultiPlugAdapter.__init__
MultiPlugAdapter(name) == [name |-> name, dict |-> EmptyDict, ratings |-> <<>>]

\* Mutant of get: the KeyError of the lookup is not caught.
get_NoCatch(d, h, name, default) ==
    LET adapter == __getitem__(d, name)
    IN  IF adapter.status = "KeyError"
        THEN [status |-> "KeyError", ret |-> NoValue]
        ELSE LET a == h[adapter.ret[1]]
                 value == highest_rated(a.dict, a.ratings)
             IN  [status |-> value.status, ret |-> value.ret]

\* Mutant of get: the first implementation plugged in is returned, whatever
\* the ratings.
get_FirstPlugged(d, h, name, default) ==
    LET adapter == __getitem__(d, name)
    IN  IF adapter.status = "KeyError"
        THEN [status |-> "ok", ret |-> Returned(default)]
        ELSE LET a == h[adapter.ret[1]]
             IN  IF a.ratings = <<>> THEN [status |-> "ValueError", ret |-> NoValue]
                 ELSE IF "first" \in DOMAIN a.dict
                      THEN [status |-> "ok", ret |-> Returned(a.dict["first"])]
                      ELSE [status |-> "ok", ret |-> Returned(a.dict[a.ratings[1][1]])]

\* Multipla.get: self[name].highest_rated, a KeyError giving default.
get(d, h, name, default) ==
    LET adapter == __getitem__(d, name)
    IN  IF adapter.status = "KeyError"
        THEN [status |-> "ok", ret |-> Returned(default)]
        ELSE LET a == h[adapter.ret[1]]
                 value == highest_rated(a.dict, a.ratings)
             IN  IF value.status = "KeyError"
                 THEN [status |-> "ok", ret |-> Returned(default)]
                 ELSE [status |-> value.status, ret |-> value.ret]

\* RatedDict.__contains__ and __len__, with the fields they leave.
__contains__(d, r, key) == Res(d, r, "ok", Returned(key \in DOMAIN d))

__len__(d, r) == Res(d, r, "ok", Returned(Cardinality(DOMAIN d)))

\* The identity of the next object constructed.
Fresh(h) ==
    CHOOSE ref \in Refs \ DOMAIN h : \A other \in Refs \ DOMAIN h : ref <= other

\* The heap with a newly constructed adapter in it.
Allocate(h, ref, adapter) ==
    [o \in DOMAIN h \cup {ref} |-> IF o = ref THEN adapter ELSE h[o]]

\* The adapters the Multipla stores; an adapter object it stores no more
\* (or never stored) is out of the callers' reach.
Stored(d, h) == [ref \in {d[k] : k \in DOMAIN d} |-> h[ref]]

\* Mutant of Multipla_get: a name that is not there is switched on, as
\* dict.setdefault would.
Multipla_get_SwitchesOn(d, r, h, name, default) ==
    LET value == get(d, h, name, default)
    IN  IF name \in DOMAIN d
        THEN [dict |-> d, ratings |-> r, heap |-> h,
              status |-> value.status, ret |-> value.ret]
        ELSE [dict |-> DSet(d, name, Fresh(h)),
              ratings |-> OSetDefault(r, name, 0),
              heap |-> Allocate(h, Fresh(h), MultiPlugAdapter(name)),
              status |-> value.status, ret |-> value.ret]

\* A call of Multipla.get, with the fields of the Multipla and the heap it
\* leaves: its body reads self[name] and the adapter's highest_rated and
\* writes nothing.
Multipla_get(d, r, h, name, default) ==
    LET value == get(d, h, name, default)
    IN  [dict |-> d, ratings |-> r, heap |-> h,
         status |-> value.status, ret |-> value.ret]

\* A call on the Multipla; h is the heap the call leaves, with the objects
\* it constructed.
MCall(op, args, res, h) ==
    /\ last.op = "idle"
    /\ cls' = cls
    /\ _dict' = res.dict
    /\ _ratings' = res.ratings
    /\ last' = [op |-> op, args |-> args, status |-> res.status, ret |-> res.ret]
    /\ heap' = Stored(res.dict, h)
    /\ UNCHANGED <<namesVars, powerVars, threadVars>>

\* A call on the adapter with reference ref.
ACall(op, ref, args, res) ==
    /\ last.op = "idle"
    /\ UNCHANGED <<cls, _dict, _ratings>>
    /\ last' = [op |-> op, args |-> <<ref>> \o args, status |-> res.status,
                ret |-> res.ret]
    /\ heap' = [heap EXCEPT ![ref] = [name |-> @.name, dict |-> res.dict,
                                      ratings |-> res.ratings]]
    /\ UNCHANGED <<namesVars, powerVars, threadVars>>

InitM ==
    /\ cls = "Multipla"
    /\ _dict = EmptyDict
    /\ _ratings = <<>>
    /\ last = Idle
    /\ heap = EmptyDict
    /\ registered = Unused
    /\ _register = Unused /\ multiplas = Unused
    /\ callbacks = Unused /\ entries = Unused
    /\ locked = Unused /\ threads = Unused

\* multipla.switch_on(name)
MSwitchOn ==
    \E name \in Sockets :
        MCall("switch_on", <<name>>,
              switch_on(_dict, _ratings, name, Fresh(heap)),
              Allocate(heap, Fresh(heap), MultiPlugAdapter(name)))

\* multipla.get(name)
MGet ==
    \E name \in Sockets :
        MCall("get", <<name>>, Multipla_get(_dict, _ratings, heap, name, None),
              Multipla_get(_dict, _ratings, heap, name, None).heap)

\* multipla.get(name, default)
MGetDefault ==
    \E name \in Sockets, default \in Values :
        MCall("get", <<name, default>>,
              Multipla_get(_dict, _ratings, heap, name, default),
              Multipla_get(_dict, _ratings, heap, name, default).heap)

\* multipla[name]
MGetItem ==
    \E name \in Sockets :
        MCall("__getitem__", <<name>>,
              Res(_dict, _ratings, __getitem__(_dict, name).status,
                  __getitem__(_dict, name).ret),
              heap)

\* name in multipla
MContains ==
    \E name \in Sockets :
        MCall("__contains__", <<name>>, __contains__(_dict, _ratings, name), heap)

\* len(multipla)
MLen == MCall("__len__", <<>>, __len__(_dict, _ratings), heap)

\* list(multipla)
MIter ==
    MCall("__iter__", <<>>, Res(_dict, _ratings, "ok", Returned(__iter__(_ratings))),
          heap)

\* multipla.top(amount) and multipla.top()
MTop ==
    \/ \E amount \in 0..(Cardinality(Sockets) + 1) :
           MCall("top", <<amount>>, top(_dict, _ratings, amount), heap)
    \/ MCall("top", <<>>, top_all(_dict, _ratings), heap)

\* multipla.highest_rated
MHighestRated ==
    MCall("highest_rated", <<>>, highest_rated(_dict, _ratings), heap)

\* del multipla[name]
MDelItem ==
    \E name \in Sockets :
        MCall("__delitem__", <<name>>, __delitem__(_dict, _ratings, name), heap)

\* adapter.plug_in(name, plug)
APlugIn ==
    \E ref \in DOMAIN heap, name \in Implementations :
        ACall("adapter.plug_in", ref, <<name, Plug[name]>>,
              plug_in(heap[ref].dict, heap[ref].ratings, name, Plug[name]))

\* adapter.rate(ratings)
ARate ==
    \E ref \in DOMAIN heap :
        \E ratings \in UNION {[K -> Ratings] : K \in SUBSET Implementations} :
            ACall("adapter.rate", ref, <<ratings>>,
                  rate(heap[ref].dict, heap[ref].ratings, ratings))

\* del adapter[name]
ADelItem ==
    \E ref \in DOMAIN heap, name \in Implementations :
        ACall("adapter.__delitem__", ref, <<name>>,
              __delitem__(heap[ref].dict, heap[ref].ratings, name))

NextM ==
    \/ MSwitchOn
    \/ MGet
    \/ MGetDefault
    \/ MGetItem
    \/ MContains
    \/ MLen
    \/ MIter
    \/ MTop
    \/ MHighestRated
    \/ MDelItem
    \/ APlugIn
    \/ ARate
    \/ ADelItem
    \/ Return

SpecM == InitM /\ [][NextM]_vars

(***************************************************************************)
(* The names given to get (SpecN).  A name is the sequence of its          *)
(* characters.  One plugin is registered in a pluggable package and one    *)
(* implementation is plugged in a Multipla, both under the same name, and  *)
(* callers look names up.                                                  *)
(***************************************************************************)
\* The characters of a name: a letter, the underscore, the two characters
\* pluggable_package translates and one it does not.
Chars == {"a", "_", "/", "-", "."}

\* The longest name.
MaxName == 2

Names == UNION {[1..n -> Chars] : n \in 1..MaxName}

\* The sentinel pluggable_package._DEFAULT: no default was passed.
_DEFAULT == NoValue

\* string.maketrans / str.maketrans of two strings of equal length
maketrans(x, y) ==
    [c \in {x[i] : i \in 1..Len(x)} |-> y[CHOOSE i \in 1..Len(x) : x[i] = c]]

\* Mutant of translate: the name is left as it is.
translate_Identity(name, table) == name

\* str.translate
translate(name, table) ==
    [i \in 1..Len(name) |-> IF name[i] \in DOMAIN table THEN table[name[i]]
                            ELSE name[i]]

\* pluggable_package._get; default is _DEFAULT or Returned(the default).
_get(reg, name, default) ==
    LET key == translate(name, maketrans(<<"/", "-">>, <<"_", "_">>))
    IN  IF key \in DOMAIN reg THEN [status |-> "ok", ret |-> Returned(reg[key])]
        ELSE IF default # _DEFAULT THEN [status |-> "ok", ret |-> default]
        ELSE [status |-> "KeyError", ret |-> NoValue]

\* A lookup: nothing but last changes.
Lookup(op, args, res) ==
    /\ last.op = "idle"
    /\ last' = [op |-> op, args |-> args, status |-> res.status, ret |-> res.ret]
    /\ UNCHANGED <<cls, _dict, _ratings, heap, namesVars, powerVars, threadVars>>

\* A plugin registered under name by setup, and multipla.switch_on(name)
\* .plug_in("first", Plug["first"]) done on a new Multipla.
InitN ==
    /\ \E name \in Names :
           /\ registered = (name :> Plug["first"])
           /\ _dict = (name :> 1)
           /\ _ratings = <<<<name, 0>>>>
           /\ heap = (1 :> [name |-> name, dict |-> ("first" :> Plug["first"]),
                            ratings |-> <<<<"first", 0>>>>])
    /\ cls = "Multipla"
    /\ last = Idle
    /\ _register = Unused /\ multiplas = Unused
    /\ callbacks = Unused /\ entries = Unused
    /\ locked = Unused /\ threads = Unused

\* package.get(name)
PackageGet ==
    \E name \in Names :
        Lookup("package.get", <<name>>, _get(registered, name, _DEFAULT))

\* package.get(name, default)
PackageGetDefault ==
    \E name \in Names, default \in Values :
        Lookup("package.get", <<name, default>>,
               _get(registered, name, Returned(default)))

\* multipla.get(name)
NamedGet ==
    \E name \in Names :
        Lookup("get", <<name>>, get(_dict, heap, name, None))

NextN ==
    \/ PackageGet
    \/ PackageGetDefault
    \/ NamedGet
    \/ Return

SpecN == InitN /\ [][NextN]_vars

(***************************************************************************)
(* power_up, the module-level register and the working sets (SpecP).       *)
(*   _register  group name -> reference of its Multipla                    *)
(*   multiplas  reference -> Multipla object (name, _dict, _ratings); the  *)
(*              adapters its _dict refers to are in heap                   *)
(*   entries    working set -> the distributions in it, in order           *)
(*   callbacks  working set -> the Multipla objects subscribed to it       *)
(* subscribe and add are pkg_resources.WorkingSet's, as power_up's         *)
(* docstring relies on them.                                               *)
(***************************************************************************)
\* The entry point groups callers power up.
Groups == {"test", "plugin_group"}

\* pkg_resources.working_set and one more WorkingSet.
WorkingSets == {"working_set", "extra"}

Distributions == {"d1", "d2"}

\* distribution.get_entry_map(group).values(): each entry point has the
\* socket name and the implementation (module:attrs) it loads.
EntryMap ==
    [dist \in Distributions |-> [group \in Groups |->
        IF dist = "d1" /\ group = "test"
        THEN <<[name |-> "test", implementation |-> "first"]>>
        ELSE IF dist = "d2" /\ group = "test"
        THEN <<[name |-> "test", implementation |-> "second"]>>
        ELSE IF dist = "d2" /\ group = "plugin_group"
        THEN <<[name |-> "other", implementation |-> "first"]>>
        ELSE <<>>]]

\* The working sets a power_up call may name.
ArgLists ==
    {<<>>, <<"working_set">>, <<"extra">>, <<"working_set", "extra">>}

\* Multipla.__init__
Multipla(name) == [name |-> name, dict |-> EmptyDict, ratings |-> <<>>]

\* The identity of the next object constructed, none being destroyed.
New(objects) == Cardinality(DOMAIN objects) + 1

Elements(s) == {s[i] : i \in 1..Len(s)}

\* The body of Multipla.__call__ over the entry points eps of a
\* distribution: self.switch_on(ep.name).plug_in(implementation, ep.load()),
\* up to the first exception.
RECURSIVE plug_entry_points(_, _, _, _)
plug_entry_points(ms, h, m, eps) ==
    IF eps = <<>> THEN [multiplas |-> ms, heap |-> h, status |-> "ok"]
    ELSE LET ep == Head(eps)
             on == switch_on(ms[m].dict, ms[m].ratings, ep.name, New(h))
             adapter == on.ret[1]
             h1 == IF adapter \in DOMAIN h THEN h
                   ELSE Allocate(h, adapter, MultiPlugAdapter(ep.name))
             ms1 == [ms EXCEPT ![m] = [name |-> @.name, dict |-> on.dict,
                                       ratings |-> on.ratings]]
             plugged == plug_in(h1[adapter].dict, h1[adapter].ratings,
                                ep.implementation, Plug[ep.implementation])
             h2 == [h1 EXCEPT ![adapter] = [name |-> @.name, dict |-> plugged.dict,
                                            ratings |-> plugged.ratings]]
         IN  IF plugged.status # "ok"
             THEN [multiplas |-> ms1, heap |-> h1, status |-> plugged.status]
             ELSE plug_entry_points(ms1, h2, m, Tail(eps))

\* Multipla.__call__(distribution) on the Multipla with reference m
__call__(ms, h, m, dist) == plug_entry_points(ms, h, m, EntryMap[dist][ms[m].name])

\* for dist in working_set: callback(dist), up to the first exception.
RECURSIVE call_on_each(_, _, _, _)
call_on_each(ms, h, m, dists) ==
    IF dists = <<>> THEN [multiplas |-> ms, heap |-> h, status |-> "ok"]
    ELSE LET called == __call__(ms, h, m, Head(dists))
         IN  IF called.status # "ok" THEN called
             ELSE call_on_each(called.multiplas, called.heap, m, Tail(dists))

\* WorkingSet.subscribe(callback) of working set ws, callback being the
\* Multipla m; w is the world: multiplas, heap, callbacks and the status so
\* far.
subscribe(w, dists, ws, m) ==
    IF m \in Elements(w.callbacks[ws]) THEN w
    ELSE LET called == call_on_each(w.multiplas, w.heap, m, dists[ws])
         IN  [multiplas |-> called.multiplas, heap |-> called.heap,
              callbacks |-> [w.callbacks EXCEPT ![ws] = Append(@, m)],
              status |-> called.status]

\* for working_set in args: working_set.subscribe(multipla), up to the
\* first exception.
RECURSIVE subscribe_each(_, _, _, _)
subscribe_each(w, dists, args, m) ==
    IF args = <<>> \/ w.status # "ok" THEN w
    ELSE subscribe_each(subscribe(w, dists, Head(args), m), dists, Tail(args), m)

\* WorkingSet._added_new(dist): for callback in self.callbacks:
\* callback(dist), up to the first exception.
RECURSIVE _added_new(_, _, _, _)
_added_new(ms, h, cbs, dist) ==
    IF cbs = <<>> THEN [multiplas |-> ms, heap |-> h, status |-> "ok"]
    ELSE LET called == __call__(ms, h, Head(cbs), dist)
         IN  IF called.status # "ok" THEN called
             ELSE _added_new(called.multiplas, called.heap, Tail(cbs), dist)

\* Mutant of power_up: a new Multipla is made and registered on every call.
power_up_AlwaysNew(reg, ms, h, cbs, dists, name, args) ==
    LET multipla == New(ms)
        w == subscribe_each(
                 [multiplas |-> Allocate(ms, multipla, Multipla(name)), heap |-> h,
                  callbacks |-> cbs, status |-> "ok"],
                 dists, IF args = <<>> THEN <<"working_set">> ELSE args, multipla)
    IN  [register |-> [n \in DOMAIN reg \cup {name} |->
                          IF n = name THEN multipla ELSE reg[n]],
         multiplas |-> w.multiplas, heap |-> w.heap, callbacks |-> w.callbacks,
         status |-> w.status,
         ret |-> IF w.status = "ok" THEN Returned(multipla) ELSE NoValue]

\* Mutant of power_up: the Multipla is called on every distribution of the
\* working sets named, subscribed already or not.
power_up_Replay(reg, ms, h, cbs, dists, name, args) ==
    LET multipla == IF name \in DOMAIN reg THEN reg[name] ELSE New(ms)
        w == subscribe_each(
                 [multiplas |-> IF name \in DOMAIN reg THEN ms
                                ELSE Allocate(ms, multipla, Multipla(name)),
                  heap |-> h,
                  callbacks |-> [ws \in DOMAIN cbs |->
                                    SelectSeq(cbs[ws], LAMBDA c : c # multipla)],
                  status |-> "ok"],
                 dists, IF args = <<>> THEN <<"working_set">> ELSE args, multipla)
    IN  [register |-> [n \in DOMAIN reg \cup {name} |->
                          IF n = name THEN multipla ELSE reg[n]],
         multiplas |-> w.multiplas, heap |-> w.heap, callbacks |-> w.callbacks,
         status |-> w.status,
         ret |-> IF w.status = "ok" THEN Returned(multipla) ELSE NoValue]

\* multipla.power_up(name, *args)
power_up(reg, ms, h, cbs, dists, name, args) ==
    LET multipla == IF name \in DOMAIN reg THEN reg[name] ELSE New(ms)
        w == subscribe_each(
                 [multiplas |-> IF name \in DOMAIN reg THEN ms
                                ELSE Allocate(ms, multipla, Multipla(name)),
                  heap |-> h, callbacks |-> cbs, status |-> "ok"],
                 dists, IF args = <<>> THEN <<"working_set">> ELSE args, multipla)
    IN  [register |-> [n \in DOMAIN reg \cup {name} |->
                          IF n = name THEN multipla ELSE reg[n]],
         multiplas |-> w.multiplas, heap |-> w.heap, callbacks |-> w.callbacks,
         status |-> w.status,
         ret |-> IF w.status = "ok" THEN Returned(multipla) ELSE NoValue]

\* The working sets among sets the Multipla registered under name is
\* subscribed to.
Subscribed(name, sets) ==
    {ws \in sets : name \in DOMAIN _register
                   /\ _register[name] \in Elements(callbacks[ws])}

InitP ==
    /\ _register = EmptyDict
    /\ multiplas = EmptyDict
    /\ heap = EmptyDict
    /\ callbacks = [ws \in WorkingSets |-> <<>>]
    /\ entries = [ws \in WorkingSets |-> <<>>]
    /\ last = Idle
    /\ cls = "Multipla"
    /\ _dict = EmptyDict
    /\ _ratings = <<>>
    /\ registered = Unused
    /\ locked = Unused /\ threads = Unused

\* A call of power_up whose outcome is p.  With the arguments last keeps
\* the working sets, among those named, the Multipla of that name was
\* subscribed to when the call was made.
PowerUpCall(name, args, p) ==
    /\ last.op = "idle"
    /\ _register' = p.register
    /\ multiplas' = p.multiplas
    /\ heap' = p.heap
    /\ callbacks' = p.callbacks
    /\ last' = [op |-> "power_up",
                args |-> <<name, args,
                           Subscribed(name, IF args = <<>> THEN {"working_set"}
                                            ELSE Elements(args))>>,
                status |-> p.status, ret |-> p.ret]
    /\ UNCHANGED <<cls, _dict, _ratings, entries, namesVars, threadVars>>

PowerUp ==
    \E name \in Groups, args \in ArgLists :
        PowerUpCall(name, args,
                    power_up(_register, multiplas, heap, callbacks, entries,
                             name, args))

\* A call of working_set.add(dist) whose outcome on the callbacks is a.
AddCall(ws, dist, a) ==
    /\ last.op = "idle"
    /\ dist \notin Elements(entries[ws])
    /\ entries' = [entries EXCEPT ![ws] = Append(@, dist)]
    /\ multiplas' = a.multiplas
    /\ heap' = a.heap
    /\ last' = [op |-> "add", args |-> <<ws, dist>>, status |-> a.status,
                ret |-> NoValue]
    /\ UNCHANGED <<cls, _dict, _ratings, _register, callbacks, namesVars, threadVars>>

\* working_set.add(dist) of a distribution the working set does not have.
Add ==
    \E ws \in WorkingSets, dist \in Distributions :
        AddCall(ws, dist, _added_new(multiplas, heap, callbacks[ws], dist))

NextP ==
    \/ PowerUp
    \/ Add
    \/ Return

SpecP == InitP /\ [][NextP]_vars

(***************************************************************************)
(* Threads calling one RatedDict (SpecT).  A call is a sequence of steps,  *)
(* each one read or write of self._dict or self._ratings, or the taking or *)
(* the release of self.locked.                                             *)
(*   locked   whether the instance lock is held                            *)
(*   threads  for each thread its frame: the call it is in (op, args), the *)
(*            step it is at (pc), the outcome so far (status, ret) and its *)
(*            locals                                                       *)
(* A thread that has made up its mind to call a locking method is at pc    *)
(* "acquire" until the lock is free; which method and with what arguments  *)
(* shows once it has the lock.  A completed call hands its outcome to      *)
(* last.  In SpecI one traversal of the keys is under way at a time.       *)
(***************************************************************************)
Threads == {1, 2}

ThreadKeys == {"a", "b"}

\* The object the threads store.
ThreadValues == {1}

\* The implementations the threads plug in.
ThreadPlugs == {1, 2}

\* The objects there are: those stored and plugged in, and the adapters
\* switch_on makes.
Objects == {1, 2, 3}

\* The methods whose body is inside "with self.locked", and those among
\* them that write.
Mutating == {"__setitem__", "__delitem__", "update", "rate", "plug_in", "switch_on"}

Locking == Mutating \cup {"top", "highest_rated"}

\* What update is given: pairs with distinct keys.
ThreadMappings ==
    {s \in SeqsUpTo(ThreadKeys \X ThreadValues, Cardinality(ThreadKeys)) : DistinctKeys(s)}

\* The ratings the threads give: enough to move a key ahead of another.
ThreadRatings == {0, 1}

ThreadRateArgs == UNION {[K -> ThreadRatings] : K \in SUBSET ThreadKeys}

\* The locals of a frame: the items still to store (of an iterator: the
\* keys still to yield), top's amount, counter and top_rated list (of an
\* iterator: the keys yielded), and of an iterator whether the OrderedDict
\* it runs over is still self._ratings, whether keys were added to or
\* deleted from that OrderedDict since the iterator was made, and whether
\* before that the iterator had no key left to go to.
NoLocals ==
    [items |-> <<>>, amount |-> 0, counter |-> 0, acc |-> <<>>,
     attached |-> FALSE, changed |-> FALSE, exhausted |-> FALSE]

IdleFrame ==
    [pc |-> "idle", op |-> "idle", args |-> <<>>, status |-> "ok",
     ret |-> NoValue, local |-> NoLocals]

\* Mutant of acquire: the lock is taken without waiting for it.
acquire_NoWait(lock) == TRUE

\* Lock.__enter__: self.__lock.acquire() returns once the lock is free.
acquire(lock) == ~lock

\* What the keys added to self._ratings do to an iterator over it.
IterInsert(frame, added) ==
    IF frame.op = "__iter__" /\ frame.local.attached /\ added # <<>>
    THEN [frame EXCEPT !.local.changed = TRUE, !.local.items = @ \o added]
    ELSE frame

\* What a key deleted from self._ratings does to an iterator over it.
IterDelete(frame, key) ==
    IF frame.op = "__iter__" /\ frame.local.attached
    THEN [frame EXCEPT !.local.changed = TRUE,
                       !.local.items = SelectSeq(@, LAMBDA k : k # key)]
    ELSE frame

\* self._ratings = another OrderedDict: the iterators keep the old one.
IterDetach(frame) ==
    IF frame.op = "__iter__" THEN [frame EXCEPT !.local.attached = FALSE]
    ELSE frame

\* Thread t is at pc of a call of op and no outcome awaits its caller.
At(t, op, pc) ==
    /\ last.op = "idle"
    /\ threads[t].op = op
    /\ threads[t].pc = pc

\* Thread t moves on to frame; the other threads stay where they are.
Goto(t, frame) == threads' = [threads EXCEPT ![t] = frame]

InitT ==
    /\ cls \in Classes
    /\ _dict = EmptyDict
    /\ _ratings = <<>>
    /\ last = Idle
    /\ locked = FALSE
    /\ threads = [t \in Threads |-> IdleFrame]
    /\ heap = EmptyDict
    /\ registered = Unused
    /\ _register = Unused /\ multiplas = Unused
    /\ callbacks = Unused /\ entries = Unused

\* Thread t sets out to call a locking method.
Begin(t) ==
    /\ At(t, "idle", "idle")
    /\ Goto(t, [IdleFrame EXCEPT !.pc = "acquire"])
    /\ UNCHANGED <<cls, _dict, _ratings, last, heap, locked, namesVars, powerVars>>

\* Thread t takes the lock and goes to frame.
Enter(t, frame) ==
    /\ acquire(locked)
    /\ locked' = TRUE
    /\ Goto(t, frame)
    /\ UNCHANGED <<cls, _dict, _ratings, last, heap, namesVars, powerVars>>

\* A step of thread t that writes nothing shared.
Local(t, frame) ==
    /\ Goto(t, frame)
    /\ UNCHANGED <<cls, _dict, _ratings, last, heap, locked, namesVars, powerVars>>

\* rd[key] = value
SetItemEnter(t) ==
    /\ At(t, "idle", "acquire")
    /\ \E key \in ThreadKeys, value \in ThreadValues :
           Enter(t, [threads[t] EXCEPT !.op = "__setitem__",
                                       !.pc = "_setitem_.dict",
                                       !.args = <<key, value>>,
                                       !.local.items = <<<<key, value>>>>])

\* rd.update(other)
UpdateEnter(t) ==
    /\ At(t, "idle", "acquire")
    /\ \E other \in ThreadMappings :
           Enter(t, [threads[t] EXCEPT
                         !.op = "update",
                         !.pc = IF other = <<>> THEN "exit" ELSE "_setitem_.dict",
                         !.args = <<other>>,
                         !.local.items = other])

\* _setitem_: self._dict[key] = value
SetItemDict(t) ==
    /\ \E op \in Mutating : At(t, op, "_setitem_.dict")
    /\ _dict' = DSet(_dict, threads[t].local.items[1][1], threads[t].local.items[1][2])
    /\ Goto(t, [threads[t] EXCEPT !.pc = "_setitem_.ratings"])
    /\ UNCHANGED <<cls, _ratings, last, heap, locked, namesVars, powerVars>>

\* _setitem_: self._ratings.setdefault(key, 0)
SetItemRatings(t) ==
    /\ \E op \in Mutating : At(t, op, "_setitem_.ratings")
    /\ LET key == threads[t].local.items[1][1]
           rest == Tail(threads[t].local.items)
       IN  /\ _ratings' = OSetDefault(_ratings, key, 0)
           /\ threads' =
                  [u \in Threads |->
                      IF u = t
                      THEN [threads[t] EXCEPT
                                !.pc = IF rest = <<>> THEN "exit" ELSE "_setitem_.dict",
                                !.local.items = rest]
                      ELSE IterInsert(threads[u],
                                      IF OHas(_ratings, key) THEN <<>> ELSE <<key>>)]
    /\ UNCHANGED <<cls, _dict, last, heap, locked, namesVars, powerVars>>

\* del rd[key]
DelItemEnter(t) ==
    /\ At(t, "idle", "acquire")
    /\ \E key \in ThreadKeys :
           Enter(t, [threads[t] EXCEPT !.op = "__delitem__", !.pc = "__delitem__.dict",
                                       !.args = <<key>>])

\* del self._dict[key]
DelItemDict(t) ==
    /\ At(t, "__delitem__", "__delitem__.dict")
    /\ IF threads[t].args[1] \in DOMAIN _dict
       THEN /\ _dict' = DDel(_dict, threads[t].args[1])
            /\ Goto(t, [threads[t] EXCEPT !.pc = "__delitem__.ratings"])
       ELSE /\ _dict' = _dict
            /\ Goto(t, [threads[t] EXCEPT !.pc = "exit", !.status = "KeyError"])
    /\ UNCHANGED <<cls, _ratings, last, heap, locked, namesVars, powerVars>>

\* del self._ratings[key]
DelItemRatings(t) ==
    /\ At(t, "__delitem__", "__delitem__.ratings")
    /\ IF OHas(_ratings, threads[t].args[1])
       THEN /\ _ratings' = ODel(_ratings, threads[t].args[1])
            /\ threads' =
                   [u \in Threads |->
                       IF u = t THEN [threads[t] EXCEPT !.pc = "exit"]
                       ELSE IterDelete(threads[u], threads[t].args[1])]
       ELSE /\ _ratings' = _ratings
            /\ Goto(t, [threads[t] EXCEPT !.pc = "exit", !.status = "KeyError"])
    /\ UNCHANGED <<cls, _dict, last, heap, locked, namesVars, powerVars>>

\* rd.rate(ratings)
RateEnter(t) ==
    /\ At(t, "idle", "acquire")
    /\ \E ratings \in ThreadRateArgs :
           Enter(t, [threads[t] EXCEPT !.op = "rate", !.pc = "rate.check",
                                       !.args = <<ratings>>])

\* unexpected = set(ratings.keys()) - set(self._dict.keys())
RateCheck(t) ==
    /\ At(t, "rate", "rate.check")
    /\ Local(t, IF (DOMAIN threads[t].args[1]) \ (DOMAIN _dict) # {}
                THEN [threads[t] EXCEPT !.pc = "exit", !.status = "KeyError"]
                ELSE [threads[t] EXCEPT !.pc = "rate.update"])

\* self._ratings.update(ratings)
RateUpdate(t) ==
    /\ At(t, "rate", "rate.update")
    /\ _ratings' = OUpdate(_ratings, threads[t].args[1])
    /\ threads' =
           [u \in Threads |->
               IF u = t THEN [threads[t] EXCEPT !.pc = "rate.sort"]
               ELSE IterInsert(threads[u],
                               SubSeq(OKeys(OUpdate(_ratings, threads[t].args[1])),
                                      Len(_ratings) + 1,
                                      Len(OUpdate(_ratings, threads[t].args[1]))))]
    /\ UNCHANGED <<cls, _dict, last, heap, locked, namesVars, powerVars>>

\* self._ratings = collections.OrderedDict(sorted(self._ratings.items(), ...))
RateSort(t) ==
    /\ At(t, "rate", "rate.sort")
    /\ _ratings' = sorted(_ratings)
    /\ threads' =
           [u \in Threads |->
               IF u = t THEN [threads[t] EXCEPT !.pc = "exit"]
               ELSE IterDetach(threads[u])]
    /\ UNCHANGED <<cls, _dict, last, heap, locked, namesVars, powerVars>>

\* Mutant of TopEnter: top goes to its loop without taking the lock.
TopEnter_NoLock(t) ==
    /\ At(t, "idle", "acquire")
    /\ \/ \E amount \in 0..(Cardinality(ThreadKeys) + 1) :
              Local(t, [threads[t] EXCEPT !.op = "top", !.pc = "top.loop",
                                          !.args = <<amount>>,
                                          !.local.amount = amount])
       \/ Local(t, [threads[t] EXCEPT !.op = "top", !.pc = "top.loop",
                                      !.local.amount = Len(_ratings)])

\* rd.top(amount) and rd.top(): amount = len(self._ratings); item =
\* iter(self._ratings)
TopEnter(t) ==
    /\ At(t, "idle", "acquire")
    /\ \/ \E amount \in 0..(Cardinality(ThreadKeys) + 1) :
              Enter(t, [threads[t] EXCEPT !.op = "top", !.pc = "top.loop",
                                          !.args = <<amount>>,
                                          !.local.amount = amount])
       \/ Enter(t, [threads[t] EXCEPT !.op = "top", !.pc = "top.loop",
                                      !.local.amount = Len(_ratings)])

\* One turn of top's loop: key = next(item);
\* top_rated.append((key, self._dict[key])); past the last turn, the list
\* is what top returns.
TopLoop(t) ==
    /\ At(t, "top", "top.loop")
    /\ LET f == threads[t]
           counter == f.local.counter
       IN  Local(t,
               IF counter >= f.local.amount
               THEN [f EXCEPT !.pc = "exit", !.ret = Returned(f.local.acc)]
               ELSE IF counter >= Len(_ratings)
               THEN [f EXCEPT !.pc = "exit", !.status = "ValueError"]
               ELSE IF _ratings[counter + 1][1] \notin DOMAIN _dict
               THEN [f EXCEPT !.pc = "exit", !.status = "KeyError"]
               ELSE [f EXCEPT !.local.counter = counter + 1,
                              !.local.acc =
                                  Append(@, <<_ratings[counter + 1][1],
                                              _dict[_ratings[counter + 1][1]]>>)])

\* rd.highest_rated
HighestRatedEnter(t) ==
    /\ At(t, "idle", "acquire")
    /\ Enter(t, [threads[t] EXCEPT !.op = "highest_rated",
                                   !.pc = "highest_rated.read"])

\* self._dict[next(iter(self._ratings))]
HighestRatedRead(t) ==
    /\ At(t, "highest_rated", "highest_rated.read")
    /\ LET value == highest_rated(_dict, _ratings)
       IN  Local(t, [threads[t] EXCEPT !.pc = "exit", !.status = value.status,
                                       !.ret = value.ret])

\* Mutant of PlugInEnter: plug_in goes to its lookup without taking the
\* lock.
PlugInEnter_NoLock(t) ==
    /\ At(t, "idle", "acquire")
    /\ cls = "MultiPlugAdapter"
    /\ \E name \in ThreadKeys, plug \in ThreadPlugs :
           Local(t, [threads[t] EXCEPT !.op = "plug_in", !.pc = "plug_in.lookup",
                                       !.args = <<name, plug>>])

\* adapter.plug_in(name, plug)
PlugInEnter(t) ==
    /\ At(t, "idle", "acquire")
    /\ cls = "MultiPlugAdapter"
    /\ \E name \in ThreadKeys, plug \in ThreadPlugs :
           Enter(t, [threads[t] EXCEPT !.op = "plug_in", !.pc = "plug_in.lookup",
                                       !.args = <<name, plug>>])

\* value = self._dict[name]; a KeyError leads to _setitem_(name, plug),
\* whose value is returned; a value found, to the KeyError raised once the
\* lock is released.
PlugInLookup(t) ==
    /\ At(t, "plug_in", "plug_in.lookup")
    /\ Local(t, IF threads[t].args[1] \in DOMAIN _dict
                THEN [threads[t] EXCEPT !.pc = "exit", !.status = "KeyError"]
                ELSE [threads[t] EXCEPT !.pc = "_setitem_.dict",
                                        !.ret = Returned(threads[t].args[2]),
                                        !.local.items = <<threads[t].args>>])

\* The object a constructor called by thread t makes: one that is not
\* stored and that no other thread is about to store.
NewObject(t) ==
    LET taken == {_dict[k] : k \in DOMAIN _dict}
                 \cup {threads[u].args[2] :
                           u \in {v \in Threads \ {t} : threads[v].op = "switch_on"}}
    IN  CHOOSE o \in Objects \ taken : \A other \in Objects \ taken : o <= other

\* Mutant of SwitchOnEnter: switch_on goes to its lookup without taking the
\* lock.
SwitchOnEnter_NoLock(t) ==
    /\ At(t, "idle", "acquire")
    /\ cls = "Multipla"
    /\ \E name \in ThreadKeys :
           Local(t, [threads[t] EXCEPT !.op = "switch_on", !.pc = "switch_on.lookup",
                                       !.args = <<name, NewObject(t)>>])

\* multipla.switch_on(name); with the name the frame keeps the object
\* MultiPlugAdapter(name) makes if it comes to that.
SwitchOnEnter(t) ==
    /\ At(t, "idle", "acquire")
    /\ cls = "Multipla"
    /\ \E name \in ThreadKeys :
           Enter(t, [threads[t] EXCEPT !.op = "switch_on", !.pc = "switch_on.lookup",
                                       !.args = <<name, NewObject(t)>>])

\* adapter = self._dict[name]; a KeyError leads to
\* _setitem_(name, MultiPlugAdapter(name)).
SwitchOnLookup(t) ==
    /\ At(t, "switch_on", "switch_on.lookup")
    /\ Local(t, IF threads[t].args[1] \in DOMAIN _dict
                THEN [threads[t] EXCEPT !.pc = "exit",
                                        !.ret = Returned(_dict[threads[t].args[1]])]
                ELSE [threads[t] EXCEPT !.pc = "_setitem_.dict",
                                        !.ret = Returned(threads[t].args[2]),
                                        !.local.items = <<threads[t].args>>])

\* Mutant of Exit: the lock is released only when the call raised nothing.
Exit_KeepsLockOnError(t) ==
    /\ \E op \in Locking : At(t, op, "exit")
    /\ locked' = (threads[t].status # "ok")
    /\ last' = [op |-> threads[t].op, args |-> threads[t].args,
                status |-> threads[t].status, ret |-> threads[t].ret]
    /\ Goto(t, IdleFrame)
    /\ UNCHANGED <<cls, _dict, _ratings, heap, namesVars, powerVars>>

\* Lock.__exit__: the lock is released and the call completes.
Exit(t) ==
    /\ \E op \in Locking : At(t, op, "exit")
    /\ locked' = FALSE
    /\ last' = [op |-> threads[t].op, args |-> threads[t].args,
                status |-> threads[t].status, ret |-> threads[t].ret]
    /\ Goto(t, IdleFrame)
    /\ UNCHANGED <<cls, _dict, _ratings, heap, namesVars, powerVars>>

\* A read that takes no lock: one step, whose outcome goes to last.
Read(t, op, args, res) ==
    /\ At(t, "idle", "idle")
    /\ last' = [op |-> op, args |-> args, status |-> res.status, ret |-> res.ret]
    /\ UNCHANGED <<cls, _dict, _ratings, heap, locked, threads, namesVars, powerVars>>

\* rd[key]
GetItemRead(t) ==
    \E key \in ThreadKeys : Read(t, "__getitem__", <<key>>, __getitem__(_dict, key))

\* key in rd
ContainsRead(t) ==
    \E key \in ThreadKeys :
        Read(t, "__contains__", <<key>>, __contains__(_dict, _ratings, key))

\* len(rd)
LenRead(t) == Read(t, "__len__", <<>>, __len__(_dict, _ratings))

\* iter(rd): self._ratings.__iter__(), without the lock.  The frame keeps in
\* args the keys self._ratings has now.
IterEnter(t) ==
    /\ At(t, "idle", "idle")
    /\ \A u \in Threads : threads[u].op # "__iter__"
    /\ Local(t, [IdleFrame EXCEPT !.op = "__iter__", !.pc = "next",
                                  !.args = <<OKeys(_ratings)>>,
                                  !.local.items = OKeys(_ratings),
                                  !.local.attached = TRUE,
                                  !.local.exhausted = (_ratings = <<>>)])

\* next(iterator) yields the next key.  A traversal is followed for as
\* many keys as there are.
IterNext(t) ==
    /\ At(t, "__iter__", "next")
    /\ threads[t].local.items # <<>>
    /\ Len(threads[t].local.acc) < Cardinality(ThreadKeys)
    /\ Local(t, [threads[t] EXCEPT
                     !.local.items = Tail(@),
                     !.local.acc = Append(@, Head(threads[t].local.items)),
                     !.local.exhausted =
                         IF threads[t].local.changed THEN @
                         ELSE Tail(threads[t].local.items) = <<>>])

\* next(iterator) raises StopIteration: the traversal is over.  An
\* iterator that keeps the key to go to stops once it had none; one that
\* follows the links stops when there is none to follow, which the link of
\* a deleted key may no longer tell.
IterStop(t) ==
    /\ At(t, "__iter__", "next")
    /\ \/ threads[t].local.items = <<>>
       \/ threads[t].local.exhausted
       \/ threads[t].local.changed
    /\ last' = [op |-> "__iter__", args |-> threads[t].args, status |-> "ok",
                ret |-> Returned(threads[t].local.acc)]
    /\ Goto(t, IdleFrame)
    /\ UNCHANGED <<cls, _dict, _ratings, heap, locked, namesVars, powerVars>>

\* next(iterator), having a key to go to, finds that keys were added to or
\* deleted from the OrderedDict and raises RuntimeError, as the OrderedDict
\* of some builds does; that of other builds goes on (IterNext, IterStop).
IterRaise(t) ==
    /\ At(t, "__iter__", "next")
    /\ threads[t].local.changed
    /\ ~threads[t].local.exhausted
    /\ last' = [op |-> "__iter__", args |-> threads[t].args,
                status |-> "RuntimeError", ret |-> Returned(threads[t].local.acc)]
    /\ Goto(t, IdleFrame)
    /\ UNCHANGED <<cls, _dict, _ratings, heap, locked, namesVars, powerVars>>

NextT ==
    \/ \E t \in Threads : Begin(t)
    \/ \E t \in Threads : SetItemEnter(t)
    \/ \E t \in Threads : UpdateEnter(t)
    \/ \E t \in Threads : SetItemDict(t)
    \/ \E t \in Threads : SetItemRatings(t)
    \/ \E t \in Threads : DelItemEnter(t)
    \/ \E t \in Threads : DelItemDict(t)
    \/ \E t \in Threads : DelItemRatings(t)
    \/ \E t \in Threads : RateEnter(t)
    \/ \E t \in Threads : RateCheck(t)
    \/ \E t \in Threads : RateUpdate(t)
    \/ \E t \in Threads : RateSort(t)
    \/ \E t \in Threads : TopEnter(t)
    \/ \E t \in Threads : TopLoop(t)
    \/ \E t \in Threads : HighestRatedEnter(t)
    \/ \E t \in Threads : HighestRatedRead(t)
    \/ \E t \in Threads : PlugInEnter(t)
    \/ \E t \in Threads : PlugInLookup(t)
    \/ \E t \in Threads : SwitchOnEnter(t)
    \/ \E t \in Threads : SwitchOnLookup(t)
    \/ \E t \in Threads : Exit(t)
    \/ \E t \in Threads : GetItemRead(t)
    \/ \E t \in Threads : ContainsRead(t)
    \/ \E t \in Threads : LenRead(t)
    \/ Return

SpecT == InitT /\ [][NextT]_vars

\* Thread t takes the lock for the call it has set out to make.
Take(t) ==
    \/ SetItemEnter(t) \/ UpdateEnter(t) \/ DelItemEnter(t) \/ RateEnter(t)
    \/ TopEnter(t) \/ HighestRatedEnter(t) \/ PlugInEnter(t) \/ SwitchOnEnter(t)

\* Thread t, the lock in hand, takes the next step of its call.
Step(t) ==
    \/ SetItemDict(t) \/ SetItemRatings(t) \/ DelItemDict(t) \/ DelItemRatings(t)
    \/ RateCheck(t) \/ RateUpdate(t) \/ RateSort(t) \/ TopLoop(t)
    \/ HighestRatedRead(t) \/ PlugInLookup(t) \/ SwitchOnLookup(t) \/ Exit(t)

\* The calls that take the lock, from their start to their outcome.
NextLocking ==
    \/ \E t \in Threads : Begin(t)
    \/ \E t \in Threads : Take(t)
    \/ \E t \in Threads : Step(t)
    \/ Return

\* The locking calls under fair scheduling: a thread inside a method goes on
\* running, a thread that finds the lock free again and again takes it in
\* the end (threading's lock itself promises no order among the waiting
\* threads), and a caller takes the outcome of its call.
SpecTFair ==
    /\ InitT /\ [][NextLocking]_vars
    /\ \A t \in Threads : SF_vars(Take(t)) /\ WF_vars(Step(t))
    /\ WF_vars(Return)

(* SpecI: threads that traverse the keys of an instance while threads set, *)
(* delete and rate its items.                                              *)
NextI ==
    \/ \E t \in Threads : Begin(t)
    \/ \E t \in Threads : SetItemEnter(t)
    \/ \E t \in Threads : SetItemDict(t)
    \/ \E t \in Threads : SetItemRatings(t)
    \/ \E t \in Threads : DelItemEnter(t)
    \/ \E t \in Threads : DelItemDict(t)
    \/ \E t \in Threads : DelItemRatings(t)
    \/ \E t \in Threads : RateEnter(t)
    \/ \E t \in Threads : RateCheck(t)
    \/ \E t \in Threads : RateUpdate(t)
    \/ \E t \in Threads : RateSort(t)
    \/ \E t \in Threads : Exit(t)
    \/ \E t \in Threads : IterEnter(t)
    \/ \E t \in Threads : IterNext(t)
    \/ \E t \in Threads : IterStop(t)
    \/ \E t \in Threads : IterRaise(t)
    \/ Return

SpecI == InitT /\ [][NextI]_vars


(***************************************************************************)
(* Vocabulary of the properties.                                           *)
(***************************************************************************)
\* The position of key in the rating order r.
Pos(r, key) == CHOOSE i \in 1..Len(r) : r[i][1] = key

KeySet(r) == {r[i][1] : i \in 1..Len(r)}

\* The ratings along r never increase.
NonIncreasing(r) == \A i, j \in 1..Len(r) : i < j => r[i][2] >= r[j][2]

\* The keys other than key keep their ratings and their relative order.
OthersKept(r, rAfter, key) ==
    SelectSeq(rAfter, LAMBDA e : e[1] # key) = SelectSeq(r, LAMBDA e : e[1] # key)

\* The keys other than key keep their values.
OtherValuesKept(d, dAfter, key) ==
    /\ (DOMAIN dAfter) \ {key} = (DOMAIN d) \ {key}
    /\ \A k \in (DOMAIN d) \ {key} : dAfter[k] = d[k]

\* C1: after every completed call (set, delete, update, rate, plug_in,
\* switch_on, top, highest_rated), failed calls included, the keys of the
\* entries are the keys of the ratings, each rated once.
C1_KeySetsEqual ==
    /\ DOMAIN _dict = KeySet(_ratings)
    /\ Len(_ratings) = Cardinality(DOMAIN _dict)

\* A failed update that still left two entries behind.
C1_Witness ==
    /\ last.op = "update"
    /\ last.status = "TypeError"
    /\ Cardinality(DOMAIN _dict) = 2

\* C2: rate naming a key that is not an entry raises KeyError and leaves
\* every rating and the rating order as they were, valid keys included.
C2_RateUnexpectedKeyChangesNothing ==
    [][(last'.op = "rate" /\ ~((DOMAIN last'.args[1]) \subseteq (DOMAIN _dict)))
         => /\ last'.status = "KeyError"
            /\ _ratings' = _ratings
            /\ _dict' = _dict]_vars

\* A failed rate that also named an entry, with a rating it does not have.
C2_Witness ==
    /\ last.op = "rate"
    /\ last.status = "KeyError"
    /\ \E k \in (DOMAIN last.args[1]) \cap (DOMAIN _dict) :
           last.args[1][k] # OGet(_ratings, k)

\* C3: after a successful rate each named key has the rating supplied, each
\* other key keeps its rating, iteration and the ratings view list all keys
\* by non-increasing rating, and reversed iteration is the exact reverse.
C3_RateMergesAndSorts ==
    [][(last'.op = "rate" /\ last'.status = "ok")
         => LET u == last'.args[1]
                it == __iter__(_ratings')
                rv == __reversed__(_ratings')
                view == ratings_view(_ratings')
            IN  /\ KeySet(_ratings') = KeySet(_ratings)
                /\ Len(_ratings') = Len(_ratings)
                /\ \A k \in DOMAIN u : OGet(_ratings', k) = u[k]
                /\ \A k \in KeySet(_ratings) \ (DOMAIN u) :
                       OGet(_ratings', k) = OGet(_ratings, k)
                /\ NonIncreasing(view)
                /\ Len(it) = Len(view)
                /\ \A i \in 1..Len(view) : view[i][1] = it[i]
                /\ \A i, j \in 1..Len(it) :
                       i < j => OGet(_ratings', it[i]) >= OGet(_ratings', it[j])
                /\ Len(rv) = Len(it)
                /\ \A i \in 1..Len(it) : rv[i] = it[Len(it) + 1 - i]
                /\ _dict' = _dict]_vars

\* A successful rate of three entries that named some and not others and
\* left distinct ratings.
C3_Witness ==
    /\ last.op = "rate"
    /\ last.status = "ok"
    /\ Len(_ratings) = 3
    /\ DOMAIN last.args[1] # {}
    /\ DOMAIN last.args[1] # KeySet(_ratings)
    /\ _ratings[1][2] > _ratings[2][2]
    /\ _ratings[2][2] > _ratings[3][2]

\* C4: after a rate call two keys with equal ratings are in the relative
\* order they had immediately before the call.
C4_RateTiesStable ==
    [][(last'.op = "rate" /\ last'.status = "ok")
         => \A i, j \in 1..Len(_ratings') :
                (i < j /\ _ratings'[i][2] = _ratings'[j][2])
                    => Pos(_ratings, _ratings'[i][1]) < Pos(_ratings, _ratings'[j][1])]_vars

\* rate({a: 1, b: 0, c: 1}) gave the order a, c, b.
C4_Witness ==
    /\ last.op = "rate"
    /\ last.status = "ok"
    /\ DOMAIN last.args[1] = {"a", "b", "c"}
    /\ _ratings = <<(<<"a", 1>>), (<<"c", 1>>), (<<"b", 0>>)>>

\* The amount a top call asked for: its argument, or every entry.
TopAmount == IF Len(last.args) = 0 THEN Len(_ratings) ELSE last.args[1]

\* The pairs ret are entries with their current values, by non-increasing
\* rating, and no entry left out is rated higher than one of them.
HighestRatedPairs(ret) ==
    /\ \A i \in 1..Len(ret) :
           ret[i][1] \in DOMAIN _dict /\ ret[i][2] = _dict[ret[i][1]]
    /\ \A i, j \in 1..Len(ret) : i # j => ret[i][1] # ret[j][1]
    /\ \A i, j \in 1..Len(ret) :
           i < j => OGet(_ratings, ret[i][1]) >= OGet(_ratings, ret[j][1])
    /\ \A k \in (DOMAIN _dict) \ {ret[i][1] : i \in 1..Len(ret)} :
           \A i \in 1..Len(ret) : OGet(_ratings, k) <= OGet(_ratings, ret[i][1])

\* C5 as stated: in every reachable state top(n), 0 <= n <= size, returns
\* exactly the n highest-rated entries in descending-rating order.
C5_TopReturnsHighestRated ==
    (last.op = "top" /\ TopAmount <= Cardinality(DOMAIN _dict))
        => /\ last.status = "ok"
           /\ Len(last.ret[1]) = TopAmount
           /\ HighestRatedPairs(last.ret[1])

\* C5 amended: top(n), 0 <= n <= size, returns the first n entries of the
\* rating order with their current values (none for n = 0, all for no
\* argument); they are the n highest-rated entries in descending-rating
\* order whenever no entry holds a negative rating.
C5_TopReturnsOrderPrefix ==
    (last.op = "top" /\ TopAmount <= Cardinality(DOMAIN _dict))
        => /\ last.status = "ok"
           /\ Len(last.ret[1]) = TopAmount
           /\ \A i \in 1..TopAmount :
                  last.ret[1][i] = <<_ratings[i][1], _dict[_ratings[i][1]]>>
           /\ (Len(last.args) = 0 => Len(last.ret[1]) = Cardinality(DOMAIN _dict))
           /\ (\A i \in 1..Len(_ratings) : _ratings[i][2] >= 0)
                  => HighestRatedPairs(last.ret[1])

\* top(2) of three entries, none rated below 0, the first rated above the
\* second, returned two different values.
C5_Witness ==
    /\ last.op = "top"
    /\ last.status = "ok"
    /\ last.args = <<2>>
    /\ Len(_ratings) = 3
    /\ _ratings[1][2] > _ratings[2][2]
    /\ _ratings[3][2] >= 0
    /\ last.ret[1][1][2] # last.ret[1][2][2]

\* C6: top(n) with n above the number of entries raises ValueError, returns
\* no list and changes nothing.
C6_TopOutOfRange ==
    [][(last'.op = "top" /\ Len(last'.args) = 1
            /\ last'.args[1] > Cardinality(DOMAIN _dict))
         => /\ last'.status = "ValueError"
            /\ last'.ret = NoValue
            /\ _dict' = _dict
            /\ _ratings' = _ratings]_vars

\* top(3) failed on a container of two entries.
C6_Witness ==
    /\ last.op = "top"
    /\ last.status = "ValueError"
    /\ last.args = <<3>>
    /\ Len(_ratings) = 2

\* C7: highest_rated raises ValueError exactly when there are no entries;
\* otherwise it returns the value of top(1)'s pair, the value of the first
\* key of the rating order.
C7_HighestRatedIsTopOne ==
    last.op = "highest_rated"
        => /\ last.status \in {"ok", "ValueError"}
           /\ (last.status = "ValueError") <=> (DOMAIN _dict = {})
           /\ last.status = "ok"
                  => /\ top(_dict, _ratings, 1).status = "ok"
                     /\ Len(top(_dict, _ratings, 1).ret[1]) = 1
                     /\ last.ret = Returned(top(_dict, _ratings, 1).ret[1][1][2])
                     /\ last.ret = Returned(_dict[__iter__(_ratings)[1]])

\* highest_rated returned from entries whose first and last values differ.
C7_Witness ==
    /\ last.op = "highest_rated"
    /\ last.status = "ok"
    /\ Len(_ratings) >= 2
    /\ _dict[_ratings[1][1]] # _dict[_ratings[Len(_ratings)][1]]

\* C8: set on a new key stores the value with rating 0; set on an existing
\* key changes only that key's value: every rating, every position and the
\* other values stay.
C8_SetItemFrame ==
    [][(last'.op = "__setitem__")
         => LET key == last'.args[1]
                value == last'.args[2]
            IN  /\ last'.status = "ok"
                /\ key \in DOMAIN _dict'
                /\ _dict'[key] = value
                /\ OtherValuesKept(_dict, _dict', key)
                /\ OthersKept(_ratings, _ratings', key)
                /\ IF key \in DOMAIN _dict
                   THEN _ratings' = _ratings
                   ELSE OHas(_ratings', key) /\ OGet(_ratings', key) = 0]_vars

\* set on a key that holds a rating other than 0, among other entries.
C8_Witness ==
    /\ last.op = "__setitem__"
    /\ Len(_ratings) >= 2
    /\ OHas(_ratings, last.args[1])
    /\ OGet(_ratings, last.args[1]) # 0

\* C9: delete of a present key removes it from entries and ratings and
\* leaves the other keys' values, ratings and order; delete of an absent
\* key raises KeyError and changes nothing.
C9_DelItem ==
    [][(last'.op = "__delitem__")
         => LET key == last'.args[1]
            IN  IF key \in DOMAIN _dict
                THEN /\ last'.status = "ok"
                     /\ key \notin DOMAIN _dict'
                     /\ ~OHas(_ratings', key)
                     /\ OtherValuesKept(_dict, _dict', key)
                     /\ OthersKept(_ratings, _ratings', key)
                ELSE /\ last'.status = "KeyError"
                     /\ _dict' = _dict
                     /\ _ratings' = _ratings]_vars

\* A delete that succeeded and left two entries with different ratings.
C9_Witness ==
    /\ last.op = "__delitem__"
    /\ last.status = "ok"
    /\ Len(_ratings) = 2
    /\ _ratings[1][2] # _ratings[2][2]

\* C10: plug_in on a free id stores the implementation with rating 0 and
\* returns it; plug_in on an occupied id raises KeyError and leaves the
\* stored value, its rating and the rest of the adapter as they were.
C10_PlugIn ==
    [][(last'.op = "plug_in")
         => LET name == last'.args[1]
                plug == last'.args[2]
            IN  IF name \in DOMAIN _dict
                THEN /\ last'.status = "KeyError"
                     /\ _dict' = _dict
                     /\ _ratings' = _ratings
                ELSE /\ last'.status = "ok"
                     /\ last'.ret = Returned(plug)
                     /\ name \in DOMAIN _dict'
                     /\ _dict'[name] = plug
                     /\ OtherValuesKept(_dict, _dict', name)
                     /\ OHas(_ratings', name)
                     /\ OGet(_ratings', name) = 0
                     /\ OthersKept(_ratings, _ratings', name)]_vars

\* A refused plug_in of an implementation other than the stored one.
C10_Witness ==
    /\ last.op = "plug_in"
    /\ last.status = "KeyError"
    /\ _dict[last.args[1]] # last.args[2]

GetAdapter == heap[_dict[last.args[1]]]

\* The rating of key in the rating order r.
RatingOf(r, key) == r[Pos(r, key)][2]

\* C12 as stated: get(name, default) returns default, raising nothing, both
\* when no adapter is stored under name and when the adapter stored under
\* name holds no implementation.
C12_GetReturnsDefault ==
    (last.op = "get" /\ Len(last.args) = 2) =>
        ((last.args[1] \notin DOMAIN _dict \/ DOMAIN GetAdapter.dict = {}) =>
            last.status = "ok" /\ last.ret = Returned(last.args[2]))

\* C12, amended: get(name, default) returns default, raising nothing, when
\* no adapter is stored under name; when the adapter stored under name
\* holds no implementation it raises ValueError and returns nothing.
C12_GetDefaultWhenNoAdapter ==
    (last.op = "get" /\ Len(last.args) = 2) =>
        /\ last.args[1] \notin DOMAIN _dict =>
               last.status = "ok" /\ last.ret = Returned(last.args[2])
        /\ (last.args[1] \in DOMAIN _dict /\ DOMAIN GetAdapter.dict = {}) =>
               last.status = "ValueError" /\ last.ret = NoValue

\* get(name, default) was called on a name whose adapter is empty, while no
\* adapter is stored under the other name.
C12_Witness ==
    /\ last.op = "get"
    /\ Len(last.args) = 2
    /\ last.args[1] \in DOMAIN _dict
    /\ DOMAIN GetAdapter.dict = {}
    /\ Cardinality(DOMAIN _dict) = 1

\* C13 as stated: get(name) with no default, on a name under which no
\* adapter is stored, raises KeyError.
C13_GetWithoutDefaultRaises ==
    (last.op = "get" /\ Len(last.args) = 1 /\ last.args[1] \notin DOMAIN _dict) =>
        last.status = "KeyError"

\* C14 as stated: get(name) on a name whose adapter holds implementations
\* returns the value of an implementation no other is rated above.
C14_GetReturnsHighestRated ==
    (last.op = "get" /\ last.args[1] \in DOMAIN _dict
                     /\ DOMAIN GetAdapter.dict # {}) =>
        /\ last.status = "ok"
        /\ \E key \in DOMAIN GetAdapter.dict :
               /\ last.ret = Returned(GetAdapter.dict[key])
               /\ \A other \in DOMAIN GetAdapter.dict :
                      RatingOf(GetAdapter.ratings, key)
                          >= RatingOf(GetAdapter.ratings, other)

\* C14, amended: get(name) on a name whose adapter holds implementations
\* returns the value of the first implementation in the adapter's rating
\* order, after any sequence of plug_in, rate and delete calls on the
\* adapter; no implementation is rated above it when none has a negative
\* rating.
C14_GetReturnsFirstInOrder ==
    (last.op = "get" /\ last.args[1] \in DOMAIN _dict
                     /\ DOMAIN GetAdapter.dict # {}) =>
        /\ last.status = "ok"
        /\ last.ret = Returned(GetAdapter.dict[GetAdapter.ratings[1][1]])
        /\ (\A i \in 1..Len(GetAdapter.ratings) : GetAdapter.ratings[i][2] >= 0) =>
               \A other \in DOMAIN GetAdapter.dict :
                   GetAdapter.ratings[1][2] >= RatingOf(GetAdapter.ratings, other)

\* get has returned the implementation plugged in second, which a rate
\* call has put above the one plugged in first (as in test_get).
C14_Witness ==
    /\ last.op = "get"
    /\ last.args[1] \in DOMAIN _dict
    /\ DOMAIN GetAdapter.dict = Implementations
    /\ RatingOf(GetAdapter.ratings, "second") = 1
    /\ RatingOf(GetAdapter.ratings, "first") = 0
    /\ last.ret = Returned(Plug["second"])

\* The characters C15 says a lookup translates.
Unsafe == {"!", "#", "$", "&", "^", "/", "+", "-", "."}

\* name with every character of from replaced by the underscore.
Underscored(name, from) ==
    [i \in 1..Len(name) |-> IF name[i] \in from THEN "_" ELSE name[i]]

\* C15 as stated: a lookup, get of a Multipla or get of a pluggable package,
\* translates each of ! # $ & ^ / + - . in the name to _ first, so that a
\* name whose translation is the registered name finds the implementation
\* registered under it; translating twice is translating once.
C15_LookupCanonicalized ==
    /\ \A name \in Names :
           Underscored(Underscored(name, Unsafe), Unsafe) = Underscored(name, Unsafe)
    /\ (last.op \in {"get", "package.get"}
        /\ Underscored(last.args[1], Unsafe) \in DOMAIN registered) =>
           last.status = "ok" /\ last.ret = Returned(Plug["first"])

\* C15, amended: get of a pluggable package translates / and - in the name
\* to _, and no other character, before the lookup: it returns the plugin
\* registered under the translated name, and with none registered under it
\* the default, or raises KeyError when no default was passed; translating
\* twice is translating once.  get of a Multipla looks the name up as it is
\* given: it returns the implementation only for the very name it is
\* plugged under, and None for any other.
C15_PackageGetTranslatesSlashDash ==
    /\ \A name \in Names :
           LET table == maketrans(<<"/", "-">>, <<"_", "_">>)
           IN  translate(translate(name, table), table) = translate(name, table)
    /\ last.op = "package.get" =>
           IF Underscored(last.args[1], {"/", "-"}) \in DOMAIN registered
           THEN last.status = "ok" /\ last.ret = Returned(Plug["first"])
           ELSE IF Len(last.args) = 2
                THEN last.status = "ok" /\ last.ret = Returned(last.args[2])
                ELSE last.status = "KeyError" /\ last.ret = NoValue
    /\ last.op = "get" =>
           /\ last.status = "ok"
           /\ last.ret = IF last.args[1] \in DOMAIN _dict
                         THEN Returned(Plug["first"]) ELSE Returned(None)

\* get of the package, given a name with a / or a - in it, has returned the
\* plugin registered under the name with underscores.
C15_Witness ==
    /\ last.op = "package.get"
    /\ Len(last.args) = 1
    /\ \E i \in 1..Len(last.args[1]) : last.args[1][i] \in {"/", "-"}
    /\ Underscored(last.args[1], {"/", "-"}) \in DOMAIN registered
    /\ last.ret = Returned(Plug["first"])

\* C16: a power_up call that returns, returns the Multipla registered under
\* its name, which bears that name; if one was registered before the call
\* it is that one; different names have different Multipla objects; and no
\* step, of power_up or of anything else, removes or replaces an entry of
\* _register.  So all calls with one name return the same object.
C16_PowerUpOneInstancePerName ==
    [][/\ \A name \in DOMAIN _register :
              name \in DOMAIN _register' /\ _register'[name] = _register[name]
       /\ last'.op = "power_up" =>
              /\ last'.args[1] \in DOMAIN _register'
              /\ multiplas'[_register'[last'.args[1]]].name = last'.args[1]
              /\ last'.status = "ok" =>
                     last'.ret = Returned(_register'[last'.args[1]])
              /\ \A n1, n2 \in DOMAIN _register' :
                     n1 # n2 => _register'[n1] # _register'[n2]]_vars

\* power_up has returned the Multipla of a name it was called with before,
\* another name being registered too.
C16_Witness ==
    /\ last.op = "power_up"
    /\ last.status = "ok"
    /\ last.args[3] # {}
    /\ Cardinality(DOMAIN _register) = 2
    /\ last.ret = Returned(_register[last.args[1]])

\* C17: a power_up call for a name whose Multipla is already subscribed to
\* every working set the call names raises nothing, returns that Multipla,
\* and plugs nothing: no Multipla, no adapter and no list of callbacks
\* changes.  So what a working set delivers to a Multipla is plugged at the
\* first subscription and never again.
C17_PowerUpAgainPlugsNothing ==
    [][(/\ last'.op = "power_up"
        /\ LET sets == IF last'.args[2] = <<>> THEN {"working_set"}
                       ELSE Elements(last'.args[2])
           IN  Subscribed(last'.args[1], sets) = sets) =>
            /\ last'.status = "ok"
            /\ last'.ret = Returned(_register[last'.args[1]])
            /\ UNCHANGED <<_register, multiplas, heap, callbacks>>]_vars

\* power_up was called again for a name whose Multipla was subscribed to
\* both working sets named, which have delivered it implementations.
C17_Witness ==
    /\ last.op = "power_up"
    /\ last.args[2] = <<"working_set", "extra">>
    /\ last.args[3] = {"working_set", "extra"}
    /\ last.status = "ok"
    /\ \E adapter \in DOMAIN heap : DOMAIN heap[adapter].dict = Implementations

\* Thread t is inside the "with self.locked" block of a call of one of ops.
Inside(t, ops) ==
    /\ threads[t].op \in ops
    /\ threads[t].pc \notin {"idle", "acquire"}

\* C18: at no time are two threads inside mutating operations (set, delete,
\* update, rate, plug_in, switch_on) of the instance, and a thread inside
\* one holds the lock; every step that reads or writes the state for such an
\* operation, and every step that changes _dict or _ratings, is the step of
\* the one thread inside, with the lock held before it, and held after it
\* unless it is the release that ends the call.
C18_MutualExclusion ==
    [][/\ \A t, u \in Threads :
              Inside(t, Mutating) /\ Inside(u, Mutating) => t = u
       /\ \A t \in Threads : Inside(t, Mutating) => locked
       /\ \A t \in Threads :
              (Inside(t, Mutating) /\ threads'[t] # threads[t]) =>
                  /\ locked
                  /\ locked' \/ threads'[t] = IdleFrame
                  /\ \A u \in Threads \ {t} : threads'[u] = threads[u]
       /\ (_dict' # _dict \/ _ratings' # _ratings) =>
              /\ locked /\ locked'
              /\ \E t \in Threads :
                     /\ Inside(t, Mutating)
                     /\ threads'[t] # threads[t]]_vars

\* A thread is between the two writes of a set, _dict having a key that
\* _ratings lacks, while the other thread waits for the lock.
C18_Witness ==
    \E t, u \in Threads :
        /\ threads[t].op = "__setitem__"
        /\ threads[t].pc = "_setitem_.ratings"
        /\ threads[t].args[1] \in DOMAIN _dict
        /\ ~OHas(_ratings, threads[t].args[1])
        /\ threads[u].pc = "acquire"
        /\ locked

\* C19: while a thread is inside top or highest_rated no thread is inside a
\* mutating operation and no step changes _dict or _ratings; so the call
\* reads one state, one left by completed operations only, and what it
\* returns (or raises) is what top or highest_rated gives on that state.
C19_TopNeverTorn ==
    [][/\ \A t \in Threads :
              Inside(t, {"top", "highest_rated"}) =>
                  /\ \A u \in Threads : ~Inside(u, Mutating)
                  /\ _dict' = _dict /\ _ratings' = _ratings
                  /\ DOMAIN _dict = {_ratings[i][1] : i \in 1..Len(_ratings)}
       /\ (last.op = "idle" /\ last'.op = "top") =>
              LET expected == top(_dict, _ratings,
                                  IF last'.args = <<>> THEN Len(_ratings)
                                  ELSE last'.args[1])
              IN  /\ last'.status = expected.status
                  /\ last'.status = "ok" => last'.ret = expected.ret
       /\ (last.op = "idle" /\ last'.op = "highest_rated") =>
              /\ last'.status = highest_rated(_dict, _ratings).status
              /\ last'.ret = highest_rated(_dict, _ratings).ret]_vars

\* A thread is in top's loop with one item taken, of a container whose
\* keys were rated into another order than they were set in, while the
\* other thread waits for the lock.
C19_Witness ==
    \E t, u \in Threads :
        /\ threads[t].op = "top"
        /\ threads[t].pc = "top.loop"
        /\ threads[t].local.counter = 1
        /\ OKeys(_ratings) = <<"b", "a">>
        /\ _ratings[1][2] = 1
        /\ threads[u].pc = "acquire"

\* C20: a traversal of the keys that has ended, ended without an error and
\* yielded the keys the instance had, in the order it had them, when the
\* iterator was made, whatever was set, deleted or rated meanwhile.
C20_IterationOverSnapshot ==
    last.op = "__iter__" =>
        /\ last.status = "ok"
        /\ last.ret = Returned(last.args[1])

\* C23 as claimed: an update that fails, fails with TypeError and leaves
\* _dict and _ratings as they were before the call.
C23_FailedUpdateChangesNothing ==
    [][(last'.op = "update" /\ last'.status # "ok") =>
           /\ last'.status = "TypeError"
           /\ _dict' = _dict
           /\ _ratings' = _ratings]_vars

\* C23 as amended: update of a source that is not iterable fails with
\* TypeError and changes nothing.  An update that fails otherwise fails with
\* TypeError or ValueError at the first element that does not unpack into
\* (key, value), and what it has stored by then stays: no key is removed, the
\* keys there before keep their ratings and their order, the keys stored by
\* the call follow them with rating 0, and _dict has the keys of _ratings.
C23_FailedUpdateKeepsPrefix ==
    [][last'.op = "update" =>
           /\ last'.args[1] = "noniterable" =>
                  /\ last'.status = "TypeError"
                  /\ _dict' = _dict /\ _ratings' = _ratings
           /\ last'.status # "ok" =>
                  /\ last'.status \in {"TypeError", "ValueError"}
                  /\ last'.args[1] # "mapping"
                  /\ DOMAIN _dict \subseteq DOMAIN _dict'
                  /\ DOMAIN _dict' = KeySet(_ratings')
                  /\ SubSeq(_ratings', 1, Len(_ratings)) = _ratings
                  /\ \A i \in (Len(_ratings) + 1)..Len(_ratings') :
                         _ratings'[i][2] = 0]_vars

\* An update of an iterable has failed at an element of the wrong length,
\* after it had stored a key, the only one there is.
C23_Witness ==
    /\ last.op = "update"
    /\ last.args = <<"pairs">>
    /\ last.status = "ValueError"
    /\ Len(_ratings) = 1
    /\ DOMAIN _dict = KeySet(_ratings)

\* C24 as claimed: plug_out(id) on an adapter signals no error; it removes
\* the implementation and its rating when id is there and changes nothing
\* when it is not.
C24_PlugOutLenient ==
    [][last'.op = "plug_out" =>
           /\ last'.status = "ok"
           /\ DOMAIN _dict' = (DOMAIN _dict) \ {last'.args[1]}
           /\ KeySet(_ratings') = KeySet(_ratings) \ {last'.args[1]}]_vars

\* C24 as amended: an adapter has no plug_out, the call fails with
\* AttributeError and changes nothing; an implementation is taken out with
\* del adapter[id], which removes it and its rating when id is there, the
\* other implementations staying as they are, and fails with KeyError,
\* changing nothing, when id is not there.
C24_RemovalIsDelItem ==
    [][cls = "MultiPlugAdapter" =>
           /\ last'.op = "plug_out" =>
                  /\ last'.status = "AttributeError"
                  /\ _dict' = _dict /\ _ratings' = _ratings
           /\ last'.op = "__delitem__" =>
                  /\ last'.status = (IF last'.args[1] \in DOMAIN _dict
                                     THEN "ok" ELSE "KeyError")
                  /\ _dict' = [k \in (DOMAIN _dict) \ {last'.args[1]} |-> _dict[k]]
                  /\ _ratings' = SelectSeq(_ratings,
                                           LAMBDA e : e[1] # last'.args[1])]_vars

\* del adapter[id] has failed on an adapter that holds other
\* implementations, none under id.
C24_Witness ==
    /\ cls = "MultiPlugAdapter"
    /\ last.op = "__delitem__"
    /\ last.status = "KeyError"
    /\ last.args[1] \notin DOMAIN _dict
    /\ Len(_ratings) = 2

\* The items of r whose key is in keys, in the order of r.
Among(r, keys) == SelectSeq(r, LAMBDA e : e[1] \in keys)

\* C28: a call of set, update, plug_in or switch_on leaves the keys there
\* before in their places with their ratings and puts every key it adds
\* (one that was absent, whatever rating it had before a delete) after them
\* with rating 0; no call but rate changes the rating or the relative order
\* of the keys it leaves in; and in every state in which no rating is
\* negative the order is non-increasing by rating.
C28_NewKeysGoLast ==
    [][/\ last'.op \in {"__setitem__", "update", "plug_in", "switch_on"} =>
              /\ SubSeq(_ratings', 1, Len(_ratings)) = _ratings
              /\ \A i \in (Len(_ratings) + 1)..Len(_ratings') :
                     /\ _ratings'[i][2] = 0
                     /\ _ratings'[i][1] \notin DOMAIN _dict
                     /\ _ratings'[i][1] \in DOMAIN _dict'
              /\ \A key \in (DOMAIN _dict') \ (DOMAIN _dict) :
                     \E i \in (Len(_ratings) + 1)..Len(_ratings') :
                         _ratings'[i][1] = key
       /\ last'.op # "rate" =>
              Among(_ratings', KeySet(_ratings)) = Among(_ratings, KeySet(_ratings'))
       /\ (\A i \in 1..Len(_ratings) : _ratings[i][2] >= 0) =>
              NonIncreasing(_ratings)
       /\ (\A i \in 1..Len(_ratings') : _ratings'[i][2] >= 0) =>
              NonIncreasing(_ratings')]_vars

\* A set has put its key, with rating 0, behind a key rated below 0: the
\* order is not non-increasing.
C28_Witness ==
    /\ last.op = "__setitem__"
    /\ Len(_ratings) >= 2
    /\ _ratings[Len(_ratings)] = <<last.args[1], 0>>
    /\ _ratings[Len(_ratings) - 1][2] < 0
    /\ ~NonIncreasing(_ratings)

\* C30: a call of get, contains, len, a traversal, top, highest_rated or
\* Multipla.get, whether it returns or raises, leaves the entries, the
\* ratings and their order as they were, in the Multipla and in every
\* adapter; Multipla.get of a name with no adapter leaves the name without
\* one.
C30_ReadsChangeNothing ==
    [][last'.op \in {"get", "__getitem__", "__contains__", "__len__",
                     "__iter__", "top", "highest_rated"} =>
           /\ _dict' = _dict
           /\ _ratings' = _ratings
           /\ heap' = heap
           /\ (last'.op = "get" /\ last'.args[1] \notin DOMAIN _dict) =>
                  last'.args[1] \notin DOMAIN _dict']_vars

\* Multipla.get of a name with no adapter has returned None, another name
\* having an adapter with an implementation.
C30_Witness ==
    /\ last.op = "get"
    /\ Len(last.args) = 1
    /\ last.args[1] \notin DOMAIN _dict
    /\ last.ret = Returned(None)
    /\ \E name \in DOMAIN _dict : heap[_dict[name]].ratings # <<>>

\* A step of thread t inside a call of op leaves every entry of _dict there
\* with its value.
KeepsEntries(t, op) ==
    (Inside(t, {op}) /\ threads'[t] # threads[t]) =>
        \A k \in DOMAIN _dict : k \in DOMAIN _dict' /\ _dict'[k] = _dict[k]

\* C25: whatever the threads do on a Multipla, no step of a switch_on
\* replaces or removes an adapter that is stored, the adapter a switch_on
\* stores is a new object put under a name that had none, and a switch_on
\* that completes raises nothing and returns the adapter stored under its
\* name at that moment.  So of the threads that call switch_on for a name
\* without adapter one stores an adapter and all return that one.
C25_SwitchOnAtomic ==
    [][/\ \A t \in Threads : KeepsEntries(t, "switch_on")
       /\ \A t \in Threads :
              (Inside(t, {"switch_on"}) /\ threads'[t] # threads[t]
                                        /\ _dict' # _dict) =>
                  /\ threads[t].args[1] \notin DOMAIN _dict
                  /\ \A k \in DOMAIN _dict : _dict[k] # threads[t].args[2]
                  /\ _dict' = DSet(_dict, threads[t].args[1], threads[t].args[2])
       /\ (last.op = "idle" /\ last'.op = "switch_on") =>
              /\ last'.status = "ok"
              /\ last'.args[1] \in DOMAIN _dict'
              /\ last'.ret = Returned(_dict'[last'.args[1]])]_vars

\* A thread is about to return from switch_on the adapter it found stored,
\* not the one it would have made, while the other thread waits for the
\* lock.
C25_Witness ==
    \E t, u \in Threads :
        /\ threads[t].op = "switch_on"
        /\ threads[t].pc = "exit"
        /\ threads[t].ret = Returned(_dict[threads[t].args[1]])
        /\ threads[t].ret # Returned(threads[t].args[2])
        /\ threads[u].pc = "acquire"

\* C27: whatever the threads do on an adapter, no step of a plug_in
\* replaces or removes an implementation that is plugged in; a plug_in
\* that returns has stored its implementation under its name, which was
\* free, and a plug_in that fails, fails with KeyError on a name that is
\* taken and has written nothing.  So of two plug_in calls for one free
\* name the first to take the lock succeeds and the other fails, the
\* implementation of the first staying in.
C27_PlugInRace ==
    [][/\ \A t \in Threads : KeepsEntries(t, "plug_in")
       /\ \A t \in Threads :
              (Inside(t, {"plug_in"}) /\ threads'[t] # threads[t]
                                      /\ (_dict' # _dict \/ _ratings' # _ratings)) =>
                  /\ threads[t].status = "ok"
                  /\ threads[t].args[1] \notin KeySet(_ratings)
       /\ (last.op = "idle" /\ last'.op = "plug_in") =>
              /\ last'.args[1] \in DOMAIN _dict'
              /\ last'.status \in {"ok", "KeyError"}
              /\ last'.status = "ok" =>
                     /\ last'.ret = Returned(last'.args[2])
                     /\ _dict'[last'.args[1]] = last'.args[2]
                     /\ OHas(_ratings', last'.args[1])]_vars

\* plug_in has failed for a thread whose implementation is another than
\* the one plugged in under the name.
C27_Witness ==
    /\ last.op = "plug_in"
    /\ last.status = "KeyError"
    /\ last.args[1] \in DOMAIN _dict
    /\ _dict[last.args[1]] # last.args[2]
    /\ _dict[last.args[1]] \in ThreadPlugs

\* C29: at every instant, threads being inside set or delete or not, every
\* key of the rating order is a key of _dict, a get of a key of the rating
\* order that has just been made has found it, and the answers contains and
\* len have just given agree with the rating order.
C29_LockFreeReadsConsistent ==
    /\ KeySet(_ratings) \subseteq DOMAIN _dict
    /\ (last.op = "__getitem__" /\ OHas(_ratings, last.args[1])) =>
           last.status = "ok"
    /\ last.op = "__contains__" =>
           last.ret = Returned(OHas(_ratings, last.args[1]))
    /\ last.op = "__len__" => last.ret = Returned(Len(_ratings))

RegisterLock == <<"register", 0>>

MultiplaLock(m) == <<"multipla", m>>

AdapterLock(a) == <<"adapter", a>>

\* The frame of a thread that is in no call.
PowerFrame ==
    [pc |-> "idle", name |-> "", multipla |-> 0, dists |-> <<>>, eps |-> <<>>,
     adapter |-> 0, status |-> "ok"]

\* The locks thread t holds.
Held(t) == {lock \in DOMAIN locked : locked[lock] = t}

\* Lock.__enter__ by thread t, which waits until the lock is free.
Acquire(t, lock) ==
    /\ lock \notin DOMAIN locked
    /\ locked' = [l \in DOMAIN locked \cup {lock} |->
                     IF l = lock THEN t ELSE locked[l]]

\* Lock.__exit__
Release(lock) == locked' = [l \in DOMAIN locked \ {lock} |-> locked[l]]

\* Thread t is at pc and no outcome awaits its caller.
AtPc(t, pc) ==
    /\ last.op = "idle"
    /\ threads[t].pc = pc

InitL ==
    /\ _register = EmptyDict
    /\ multiplas = EmptyDict
    /\ heap = EmptyDict
    /\ callbacks = [ws \in WorkingSets |-> <<>>]
    /\ entries = [ws \in WorkingSets |->
                     IF ws = "working_set" THEN <<"d1", "d2">> ELSE <<>>]
    /\ locked = EmptyDict
    /\ threads = [t \in Threads |-> PowerFrame]
    /\ last = Idle
    /\ cls = "Multipla"
    /\ _dict = EmptyDict
    /\ _ratings = <<>>
    /\ registered = Unused

\* power_up(name) is called by thread t.
PowerUpBegin(t) ==
    /\ AtPc(t, "idle")
    /\ \E name \in Groups :
           Goto(t, [PowerFrame EXCEPT !.pc = "register.acquire", !.name = name])
    /\ UNCHANGED <<cls, _dict, _ratings, last, heap, locked, namesVars, powerVars>>

\* with _locked_register: entered.
RegisterAcquire(t) ==
    /\ AtPc(t, "register.acquire")
    /\ Acquire(t, RegisterLock)
    /\ Goto(t, [threads[t] EXCEPT !.pc = "register.body"])
    /\ UNCHANGED <<cls, _dict, _ratings, last, heap, namesVars, powerVars>>

\* try: multipla = _register[name]
\* except KeyError: _register[name] = multipla = Multipla(name)
RegisterBody(t) ==
    /\ AtPc(t, "register.body")
    /\ LET name == threads[t].name
           known == name \in DOMAIN _register
           multipla == IF known THEN _register[name] ELSE New(multiplas)
       IN  /\ _register' = IF known THEN _register
                           ELSE [n \in DOMAIN _register \cup {name} |->
                                    IF n = name THEN multipla ELSE _register[n]]
           /\ multiplas' = IF known THEN multiplas
                           ELSE Allocate(multiplas, multipla, Multipla(name))
           /\ Goto(t, [threads[t] EXCEPT !.pc = "register.release",
                                         !.multipla = multipla])
    /\ UNCHANGED <<cls, _dict, _ratings, last, heap, locked, callbacks, entries,
                   namesVars>>

\* Mutant of RegisterRelease: the block goes on to the subscription with
\* _locked_register held.
RegisterRelease_KeepsLock(t) ==
    /\ AtPc(t, "register.release")
    /\ Goto(t, [threads[t] EXCEPT !.pc = "subscribe.check"])
    /\ UNCHANGED <<cls, _dict, _ratings, last, heap, locked, namesVars, powerVars>>

\* with _locked_register: left.  args is [pkg_resources.working_set].
RegisterRelease(t) ==
    /\ AtPc(t, "register.release")
    /\ Release(RegisterLock)
    /\ Goto(t, [threads[t] EXCEPT !.pc = "subscribe.check"])
    /\ UNCHANGED <<cls, _dict, _ratings, last, heap, namesVars, powerVars>>

\* WorkingSet.subscribe: if callback in self.callbacks: return
SubscribeCheck(t) ==
    /\ AtPc(t, "subscribe.check")
    /\ Goto(t, [threads[t] EXCEPT
                    !.pc = IF threads[t].multipla
                                \in Elements(callbacks["working_set"])
                           THEN "return" ELSE "subscribe.append"])
    /\ UNCHANGED <<cls, _dict, _ratings, last, heap, locked, namesVars, powerVars>>

\* WorkingSet.subscribe: self.callbacks.append(callback); for dist in self:
SubscribeAppend(t) ==
    /\ AtPc(t, "subscribe.append")
    /\ callbacks' = [callbacks EXCEPT
                         !["working_set"] = Append(@, threads[t].multipla)]
    /\ Goto(t, [threads[t] EXCEPT !.pc = "callback",
                                  !.dists = entries["working_set"]])
    /\ UNCHANGED <<cls, _dict, _ratings, last, heap, locked, _register, multiplas,
                   entries, namesVars>>

\* for dist in self: callback(dist), which is Multipla.__call__(dist):
\* for ep in distribution.get_entry_map(self.name).values():
CallbackNext(t) ==
    /\ AtPc(t, "callback")
    /\ threads[t].eps = <<>>
    /\ Goto(t, IF threads[t].dists = <<>>
               THEN [threads[t] EXCEPT !.pc = "return"]
               ELSE [threads[t] EXCEPT
                         !.dists = Tail(@),
                         !.eps = EntryMap[Head(threads[t].dists)][threads[t].name]])
    /\ UNCHANGED <<cls, _dict, _ratings, last, heap, locked, namesVars, powerVars>>

\* self.switch_on(ep.name): with self.locked: entered.
SwitchOnAcquire(t) ==
    /\ AtPc(t, "callback")
    /\ threads[t].eps # <<>>
    /\ Acquire(t, MultiplaLock(threads[t].multipla))
    /\ Goto(t, [threads[t] EXCEPT !.pc = "switch_on.body"])
    /\ UNCHANGED <<cls, _dict, _ratings, last, heap, namesVars, powerVars>>

\* The body of switch_on on the Multipla of the call.
SwitchOnBody(t) ==
    /\ AtPc(t, "switch_on.body")
    /\ LET m == threads[t].multipla
           ep == Head(threads[t].eps)
           on == switch_on(multiplas[m].dict, multiplas[m].ratings, ep.name, New(heap))
           adapter == on.ret[1]
       IN  /\ multiplas' = [multiplas EXCEPT
                                ![m] = [name |-> @.name, dict |-> on.dict,
                                        ratings |-> on.ratings]]
           /\ heap' = IF adapter \in DOMAIN heap THEN heap
                      ELSE Allocate(heap, adapter, MultiPlugAdapter(ep.name))
           /\ Goto(t, [threads[t] EXCEPT !.pc = "switch_on.release",
                                         !.adapter = adapter])
    /\ UNCHANGED <<cls, _dict, _ratings, last, locked, _register, callbacks,
                   entries, namesVars>>

\* switch_on: with self.locked: left; return adapter.
SwitchOnRelease(t) ==
    /\ AtPc(t, "switch_on.release")
    /\ Release(MultiplaLock(threads[t].multipla))
    /\ Goto(t, [threads[t] EXCEPT !.pc = "plug_in.acquire"])
    /\ UNCHANGED <<cls, _dict, _ratings, last, heap, namesVars, powerVars>>

\* .plug_in(implementation, ep.load()): with self.locked: entered.
PlugInAcquire(t) ==
    /\ AtPc(t, "plug_in.acquire")
    /\ Acquire(t, AdapterLock(threads[t].adapter))
    /\ Goto(t, [threads[t] EXCEPT !.pc = "plug_in.body"])
    /\ UNCHANGED <<cls, _dict, _ratings, last, heap, namesVars, powerVars>>

\* The body of plug_in on the adapter switch_on returned.
PlugInBody(t) ==
    /\ AtPc(t, "plug_in.body")
    /\ LET a == threads[t].adapter
           ep == Head(threads[t].eps)
           plugged == plug_in(heap[a].dict, heap[a].ratings, ep.implementation,
                              Plug[ep.implementation])
       IN  /\ heap' = [heap EXCEPT ![a] = [name |-> @.name, dict |-> plugged.dict,
                                           ratings |-> plugged.ratings]]
           /\ Goto(t, [threads[t] EXCEPT !.pc = "plug_in.release",
                                         !.status = plugged.status])
    /\ UNCHANGED <<cls, _dict, _ratings, last, locked, namesVars, powerVars>>

\* plug_in: with self.locked: left; the KeyError of a taken name is raised
\* and ends __call__, subscribe and power_up; else the next entry point.
PlugInRelease(t) ==
    /\ AtPc(t, "plug_in.release")
    /\ Release(AdapterLock(threads[t].adapter))
    /\ Goto(t, IF threads[t].status # "ok"
               THEN [threads[t] EXCEPT !.pc = "return"]
               ELSE [threads[t] EXCEPT !.pc = "callback", !.eps = Tail(@),
                                       !.adapter = 0])
    /\ UNCHANGED <<cls, _dict, _ratings, last, heap, namesVars, powerVars>>

\* return multipla, or the exception that ended the subscription.
PowerUpReturn(t) ==
    /\ AtPc(t, "return")
    /\ last' = [op |-> "power_up", args |-> <<threads[t].name>>,
                status |-> threads[t].status,
                ret |-> IF threads[t].status = "ok"
                        THEN Returned(threads[t].multipla) ELSE NoValue]
    /\ Goto(t, PowerFrame)
    /\ UNCHANGED <<cls, _dict, _ratings, heap, locked, namesVars, powerVars>>

NextL ==
    \/ \E t \in Threads : PowerUpBegin(t)
    \/ \E t \in Threads : RegisterAcquire(t)
    \/ \E t \in Threads : RegisterBody(t)
    \/ \E t \in Threads : RegisterRelease(t)
    \/ \E t \in Threads : SubscribeCheck(t)
    \/ \E t \in Threads : SubscribeAppend(t)
    \/ \E t \in Threads : CallbackNext(t)
    \/ \E t \in Threads : SwitchOnAcquire(t)
    \/ \E t \in Threads : SwitchOnBody(t)
    \/ \E t \in Threads : SwitchOnRelease(t)
    \/ \E t \in Threads : PlugInAcquire(t)
    \/ \E t \in Threads : PlugInBody(t)
    \/ \E t \in Threads : PlugInRelease(t)
    \/ \E t \in Threads : PowerUpReturn(t)
    \/ Return

SpecL == InitL /\ [][NextL]_vars

\* C21: no thread ever holds two locks; a thread holds _locked_register
\* only inside the block of power_up that looks the name up, the lock of a
\* Multipla only inside switch_on and the lock of an adapter only inside
\* plug_in: so the subscription, switch_on and plug_in run with
\* _locked_register released, and neither switch_on nor plug_in takes a
\* second lock.
C21_NoThreadHoldsTwoLocks ==
    \A t \in Threads :
        /\ Cardinality(Held(t)) <= 1
        /\ Held(t) =
               IF threads[t].pc \in {"register.body", "register.release"}
               THEN {RegisterLock}
               ELSE IF threads[t].pc \in {"switch_on.body", "switch_on.release"}
               THEN {MultiplaLock(threads[t].multipla)}
               ELSE IF threads[t].pc \in {"plug_in.body", "plug_in.release"}
               THEN {AdapterLock(threads[t].adapter)}
               ELSE {}

\* One thread is inside plug_in, holding the lock of the adapter, while the
\* other is inside the block of power_up holding _locked_register.
C21_Witness ==
    \E t, u \in Threads :
        /\ threads[t].pc = "plug_in.body"
        /\ Held(t) = {AdapterLock(threads[t].adapter)}
        /\ threads[u].pc = "register.body"
        /\ Held(u) = {RegisterLock}

\* C26: no entry of _register is ever replaced, so one Multipla only is
\* created for a name; and every call of power_up, whatever the other
\* threads are doing, ends by returning the Multipla registered under its
\* name.
C26_EveryCallerReceivesTheInstance ==
    [][/\ \A name \in DOMAIN _register :
              name \in DOMAIN _register' /\ _register'[name] = _register[name]
       /\ (last'.op = "power_up" /\ last.op = "idle") =>
              /\ last'.status = "ok"
              /\ last'.ret = Returned(_register'[last'.args[1]])]_vars
====
